---- MODULE Spec2Model ----
(***************************************************************************)
(* A model of the GIVE engine (src/src/engine/GIVEEngine.js) and of the    *)
(* GIVEScript query helper (src/unnamed/part_001): the overlay store, the  *)
(* object tracker, the render dispatcher with its collision registry, and  *)
(* the playback clock.                                                     *)
(*                                                                         *)
(* JavaScript objects are functions from property names to values; a       *)
(* property that is absent (undefined) is not in the DOMAIN.  Geometry is  *)
(* held as floating-point numbers, written as rationals [n, d] (d = 0 is   *)
(* NaN) and rounded after every operation; frames are integers.  Media     *)
(* time is counted in units of 1/TimeUnitsPerSecond seconds.               *)
(***************************************************************************)
EXTENDS Integers, Sequences, FiniteSets, TLC

VARIABLES
  video,            \* this.video: NULL, or [currentTime, duration] in time units
  ctx,              \* this.ctx: TRUE once setupCanvas has created the 2D context
  fps,              \* this.config.fps
  videoWidth,       \* this.videoWidth
  videoHeight,      \* this.videoHeight
  isPlaying,        \* this.isPlaying
  currentFrame,     \* this.currentFrame
  totalFrames,      \* this.totalFrames
  animationId,      \* this.animationId: a requestAnimationFrame handle, or 0 for null
  rafPending,       \* handles of the renderLoop callbacks the host still has to run
  overlays,         \* this.overlays: sequence of overlay objects (the store)
  activeOverlays,   \* this.activeOverlays: references into the store, as store positions
  collisionAreas,   \* this.collisionAreas: sequence of area objects
  trackedObjects,   \* this.trackedObjects: the Map, as a sequence in insertion order
  renderStatus,     \* how the latest render() call ended: "none", "skipped", "completed", "threw"
  dispatched,       \* store positions whose type renderer returned in the latest render()
  lastBounds,       \* value returned by the latest getTrackedBounds() call of the host
  lastQuery,        \* the arguments of that call
  held,             \* the list the latest getOverlays() call of the host returned
  converted,        \* the host's latest frameToTime() call and the timeToFrame() of its result
  notified,         \* the frame the latest playback tick passed to onFrameChange, or NULL
  timecode,         \* the host's latest GIVEScript timecode call: its argument and result
  history,          \* editor.history: the JSON snapshots of the overlay list
  historyIndex,     \* editor.historyIndex
  selectedOverlay,  \* editor.selectedOverlay: an overlay of the store, as its position, or 0 for null
  lastEdit,         \* the editor's latest edit, undo or redo, and the lists it is measured against
  prompted          \* the onQTEPrompt calls of the latest handleKeyPress call

vars == <<video, ctx, fps, isPlaying, currentFrame, totalFrames, animationId,
          rafPending, overlays, activeOverlays, collisionAreas, trackedObjects,
          renderStatus, dispatched, lastBounds, lastQuery, held, converted, notified, timecode,
          history, historyIndex, selectedOverlay, lastEdit, prompted,
          videoWidth, videoHeight>>

editorVars == <<history, historyIndex, selectedOverlay, lastEdit>>

-----------------------------------------------------------------------------
(* Bounds of the model *)

MaxOverlays == 2      \* the store holds at most this many overlays
MaxFrame == 3         \* frame numbers given by the host lie in 0..MaxFrame
MaxDuration == 6      \* longest video, in time units
MaxTracks == 1        \* the tracker holds at most this many tracks
SignificandBits == 6  \* significant bits of a number
MaxConversionFrame == 30  \* the host converts the frames 0..MaxConversionFrame
MaxPending == 2       \* the callback calls the engine while fewer callbacks than this are pending
MaxHistory == 3       \* the editor keeps at most this many snapshots
MaxEdited == 1        \* the editor creates an overlay while the store holds fewer than this

(* Program constants *)

DefaultFps == 24      \* options.fps || 24
DefaultAnimationFrames == 24
SecondsPerHour == 3600
SecondsPerMinute == 60
MillisecondsPerSecond == 1000
DefaultQteSize == 60  \* style.size || 60

TimeUnitsPerSecond == 2 * DefaultFps   \* half a frame at the default rate

-----------------------------------------------------------------------------
(* Values *)

NULL == [null |-> TRUE]

EmptyObj == [p \in {} |-> TRUE]

Has(o, p) == p \in DOMAIN o

\* JavaScript truthiness of o[p], for a string and for a boolean property
TruthyStr(o, p) == Has(o, p) /\ o[p] # ""
TruthyBool(o, p) == Has(o, p) /\ o[p]

\* Object.assign(target, source)
ObjectAssign(target, source) == source @@ target

Abs(i) == IF i < 0 THEN -i ELSE i

RECURSIVE GCD(_, _)
GCD(a, b) == IF b = 0 THEN a ELSE GCD(b, a % b)

\* A JavaScript number: the rational n/d, NaN when d = 0.  The numbers of the
\* engine are binary floating point: the result of an operation is the exact
\* result rounded to the nearest number with SignificandBits significant
\* bits, ties to even (53 bits in the engine; the exponent range is never
\* left).
NaN == [n |-> 0, d |-> 0]

Num(i) == [n |-> i, d |-> 1]

Norm(n, d) ==
  LET g == GCD(Abs(n), Abs(d))
      s == IF d < 0 THEN -1 ELSE 1
  IN  IF d = 0 THEN NaN ELSE [n |-> s * (n \div g), d |-> s * (d \div g)]

IsNaN(a) == a.d = 0

RECURSIVE Pow2(_)
Pow2(k) == IF k = 0 THEN 1 ELSE 2 * Pow2(k - 1)

\* a/d rounded to an integer, ties to even
Nearest(a, d) ==
  IF 2 * (a % d) > d \/ (2 * (a % d) = d /\ (a \div d) % 2 = 1)
  THEN (a \div d) + 1 ELSE a \div d

\* sign * (a/d) * (up/down) once a/d is scaled into [2^(p-1), 2^p)
RECURSIVE RoundScaled(_, _, _, _, _)
RoundScaled(sign, a, d, up, down) ==
  IF a < Pow2(SignificandBits - 1) * d THEN RoundScaled(sign, 2 * a, d, up, 2 * down)
  ELSE IF a >= Pow2(SignificandBits) * d THEN RoundScaled(sign, a, 2 * d, 2 * up, down)
  ELSE Norm(sign * Nearest(a, d) * up, down)

\* the floating-point number nearest to n/d (d > 0)
Round(n, d) ==
  IF n = 0 THEN Num(0) ELSE RoundScaled(IF n < 0 THEN -1 ELSE 1, Abs(n), d, 1, 1)

NumAdd(a, b) == IF IsNaN(a) \/ IsNaN(b) THEN NaN ELSE Round(a.n * b.d + b.n * a.d, a.d * b.d)
NumSub(a, b) == IF IsNaN(a) \/ IsNaN(b) THEN NaN ELSE Round(a.n * b.d - b.n * a.d, a.d * b.d)
NumMul(a, b) == IF IsNaN(a) \/ IsNaN(b) THEN NaN ELSE Round(a.n * b.n, a.d * b.d)
\* the only zero divisor getTrackedBounds can meet is 0/0, which is NaN
NumDiv(a, b) ==
  IF IsNaN(a) \/ IsNaN(b) \/ b.n = 0 THEN NaN
  ELSE Round((IF b.n < 0 THEN -1 ELSE 1) * a.n * b.d, a.d * Abs(b.n))

Max(a, b) == IF a > b THEN a ELSE b
Min(a, b) == IF a < b THEN a ELSE b

Range(s) == {s[i] : i \in 1..Len(s)}

\* Array.prototype.filter
SeqFilter(s, Keep(_)) == SelectSeq(s, Keep)

-----------------------------------------------------------------------------
(* Object tracker *)

\* Map.prototype.has / get / set / delete on the insertion-ordered sequence
MapHas(m, id) == \E i \in 1..Len(m) : m[i].id = id
MapGet(m, id) == m[CHOOSE i \in 1..Len(m) : m[i].id = id]
MapSet(m, id, v) ==
  IF MapHas(m, id) THEN [i \in 1..Len(m) |-> IF m[i].id = id THEN v ELSE m[i]]
  ELSE Append(m, v)
MapDelete(m, id) == SeqFilter(m, LAMBDA t : t.id # id)

\* Array.prototype.sort((a, b) => a.frame - b.frame): stable insertion sort
RECURSIVE InsertByFrame(_, _)
InsertByFrame(sorted, kf) ==
  IF sorted = <<>> THEN <<kf>>
  ELSE IF Head(sorted).frame <= kf.frame
       THEN <<Head(sorted)>> \o InsertByFrame(Tail(sorted), kf)
       ELSE <<kf>> \o sorted

RECURSIVE SortByFrame(_)
SortByFrame(s) ==
  IF s = <<>> THEN <<>>
  ELSE InsertByFrame(SortByFrame(SubSeq(s, 1, Len(s) - 1)), s[Len(s)])

\* a loop that never finds a pair: the first and the last keyframe are used
NoBracket(keyframes, frame) == 0

\* the loop of getTrackedBounds: the first i with kf[i].frame <= frame <= kf[i+1].frame
BracketIndex(keyframes, frame) ==
  LET hits == {i \in 1..(Len(keyframes) - 1) :
                 keyframes[i].frame <= frame /\ keyframes[i + 1].frame >= frame}
  IN  IF hits = {} THEN 0 ELSE CHOOSE i \in hits : \A j \in hits : i <= j

Lerp(p, q, t) == NumAdd(p, NumMul(NumSub(q, p), t))

LerpBounds(p, q, t) ==
  [x |-> Lerp(p.x, q.x, t),
   y |-> Lerp(p.y, q.y, t),
   width |-> Lerp(p.width, q.width, t),
   height |-> Lerp(p.height, q.height, t)]

\* linear interpolation between the keyframes prevKf and nextKf
Interpolate(prevKf, nextKf, frame) ==
  LerpBounds(prevKf.bounds, nextKf.bounds,
             NumDiv(Num(frame - prevKf.frame), Num(nextKf.frame - prevKf.frame)))

\* prevKf and nextKf start as the first and the last keyframe and are
\* replaced by the pair at i when the loop finds one
Bracketed(keyframes, i, frame) ==
  IF i = 0 THEN Interpolate(keyframes[1], keyframes[Len(keyframes)], frame)
  ELSE Interpolate(keyframes[i], keyframes[i + 1], frame)

\* a tracker that holds the nearest keyframe outside the tracking window too
BoundsIgnoringWindow(track, frame) ==
  IF Len(track.keyframes) = 0 THEN NULL
  ELSE IF frame <= track.keyframes[1].frame THEN track.keyframes[1].bounds
  ELSE IF frame >= track.keyframes[Len(track.keyframes)].frame
       THEN track.keyframes[Len(track.keyframes)].bounds
  ELSE Bracketed(track.keyframes, BracketIndex(track.keyframes, frame), frame)

\* getTrackedBounds once the track is found
BoundsOnTrack(track, frame) ==
  IF Len(track.keyframes) = 0 THEN NULL
  ELSE IF frame < track.startFrame \/ frame > track.endFrame THEN NULL
  ELSE IF frame <= track.keyframes[1].frame THEN track.keyframes[1].bounds
  ELSE IF frame >= track.keyframes[Len(track.keyframes)].frame
       THEN track.keyframes[Len(track.keyframes)].bounds
  ELSE Bracketed(track.keyframes, BracketIndex(track.keyframes, frame), frame)

getTrackedBounds(tracks, trackId, frame) ==
  IF ~MapHas(tracks, trackId) THEN NULL
  ELSE BoundsOnTrack(MapGet(tracks, trackId), frame)

-----------------------------------------------------------------------------
(* Temporal mapper *)

\* Math.floor(time * fps), time in units of 1/TimeUnitsPerSecond s
timeToFrame(time, rate) == (time * rate) \div TimeUnitsPerSecond

\* frame / fps, in time units (exact for the rates of the model)
frameToTime(frame, rate) == (frame * TimeUnitsPerSecond) \div rate

\* Math.floor of a number
Floor(a) == IF IsNaN(a) THEN NaN ELSE Num(a.n \div a.d)

\* the same two conversions in the arithmetic of the engine's numbers, for
\* any rate: frame / fps, and Math.floor(time * fps), in seconds
frameToTimeNum(frame, rate) == NumDiv(frame, rate)

timeToFrameNum(time, rate) == Floor(NumMul(time, rate))

-----------------------------------------------------------------------------
(* GIVEScript timecodes.  A string is the sequence of its characters. *)

DigitChars == <<"0", "1", "2", "3", "4", "5", "6", "7", "8", "9">>

IsDigit(c) == \E d \in 1..10 : DigitChars[d] = c

DigitValue(c) == (CHOOSE d \in 1..10 : DigitChars[d] = c) - 1

\* n.toString() of a non-negative integer
RECURSIVE DecimalDigits(_)
DecimalDigits(n) ==
  IF n < 10 THEN <<DigitChars[n + 1]>>
  ELSE DecimalDigits(n \div 10) \o <<DigitChars[(n % 10) + 1]>>

\* String.prototype.padStart(len, c)
RECURSIVE PadStart(_, _, _)
PadStart(str, len, c) == IF Len(str) >= len THEN str ELSE PadStart(<<c>> \o str, len, c)

\* String.prototype.split(sep): the pieces between the separators
RECURSIVE Split(_, _, _)
Split(str, sep, piece) ==
  IF str = <<>> THEN <<piece>>
  ELSE IF Head(str) = sep THEN <<piece>> \o Split(Tail(str), sep, <<>>)
  ELSE Split(Tail(str), sep, Append(piece, Head(str)))

\* the integer a string of digits spells, read from the left
RECURSIVE DigitsValue(_, _)
DigitsValue(str, acc) ==
  IF str = <<>> THEN acc ELSE DigitsValue(Tail(str), 10 * acc + DigitValue(Head(str)))

\* Number(str) and parseInt(str, 10) of a piece of a timecode: the number
\* nearest to the integer spelled; Number('') is 0, parseInt('') is NaN
Number(str) ==
  IF \A k \in 1..Len(str) : IsDigit(str[k]) THEN Round(DigitsValue(str, 0), 1) ELSE NaN

parseInt(str) == IF str = <<>> THEN NaN ELSE Number(str)

\* a % b of two positive numbers (exact)
NumMod(a, b) ==
  IF IsNaN(a) \/ IsNaN(b) \/ b.n = 0 THEN NaN
  ELSE Round((a.n * b.d) % (b.n * a.d), a.d * b.d)

\* Math.floor in the place of Math.round
MathFloor(a) == Floor(a)

\* Math.round: the nearest integer, a half going up
MathRound(a) == IF IsNaN(a) THEN NaN ELSE Num((2 * a.n + a.d) \div (2 * a.d))

\* one field of a timecode: the integer as two digits at least
Field(a) == PadStart(DecimalDigits(a.n), 2, "0")

\* GIVEScript.frameToTimecode(frame) at the rate fps
frameToTimecode(frame, rate) ==
  Field(Floor(NumDiv(NumDiv(frame, rate), Round(SecondsPerHour, 1)))) \o <<":">>
    \o Field(Floor(NumDiv(NumMod(NumDiv(frame, rate), Round(SecondsPerHour, 1)),
                          Round(SecondsPerMinute, 1)))) \o <<":">>
    \o Field(Floor(NumMod(NumDiv(frame, rate), Round(SecondsPerMinute, 1)))) \o <<":">>
    \o Field(Floor(NumMod(frame, rate)))

\* hours * 3600 + minutes * 60 + seconds of the pieces HH, MM, SS
WholeSeconds(pieces) ==
  NumAdd(NumAdd(NumMul(Number(pieces[1]), Round(SecondsPerHour, 1)),
                NumMul(Number(pieces[2]), Round(SecondsPerMinute, 1))),
         Number(pieces[3]))

\* totalSeconds of a timecode HH:MM:SS.mmm; ms || '0' when there is no '.'
TotalSeconds(str) ==
  NumAdd(WholeSeconds(Split(Split(str, ".", <<>>)[1], ":", <<>>)),
         NumDiv(parseInt(IF Len(Split(str, ".", <<>>)) < 2 \/ Split(str, ".", <<>>)[2] = <<>>
                         THEN <<"0">> ELSE Split(str, ".", <<>>)[2]),
                Round(MillisecondsPerSecond, 1)))

\* GIVEScript.timecodeToFrame(timecode) at the rate fps
timecodeToFrame(str, rate) ==
  IF Len(Split(str, ":", <<>>)) = 4
  THEN MathRound(NumAdd(NumMul(WholeSeconds(Split(str, ":", <<>>)), rate),
                        Number(Split(str, ":", <<>>)[4])))
  ELSE MathRound(NumMul(TotalSeconds(str), rate))

-----------------------------------------------------------------------------
(* Render dispatcher and collision registry *)

UNDEFINED == "undefined"

\* o.id as the registry sees it
IdOf(o) == IF Has(o, "id") THEN o.id ELSE UNDEFINED

\* a filter whose window excludes its last frame
IsActiveBeforeEnd(o, frame) ==
  /\ Has(o, "frameStart") /\ Has(o, "frameEnd")
  /\ frame >= o.frameStart
  /\ frame < o.frameEnd

\* the filter predicate of render() and of GIVEScript.getAtFrame():
\* a comparison with undefined is false
IsActiveAt(o, frame) ==
  /\ Has(o, "frameStart") /\ Has(o, "frameEnd")
  /\ frame >= o.frameStart
  /\ frame <= o.frameEnd

\* the same positions, last first
RECURSIVE ActiveFromEnd(_, _, _)
ActiveFromEnd(ovs, frame, i) ==
  IF i > Len(ovs) THEN <<>>
  ELSE ActiveFromEnd(ovs, frame, i + 1)
         \o (IF IsActiveAt(ovs[i], frame) THEN <<i>> ELSE <<>>)

\* positions of this.overlays.filter(...), in store order
RECURSIVE ActivePositions(_, _, _)
ActivePositions(ovs, frame, i) ==
  IF i > Len(ovs) THEN <<>>
  ELSE (IF IsActiveAt(ovs[i], frame) THEN <<i>> ELSE <<>>)
         \o ActivePositions(ovs, frame, i + 1)

\* GIVEScript.getAtFrame(frame): engine.getOverlays().filter(...)
getAtFrame(ovs, frame) == SeqFilter(ovs, LAMBDA o : IsActiveAt(o, frame))

registerCollisionArea(areas, area) ==
  Append(SeqFilter(areas, LAMBDA a : IdOf(a) # IdOf(area)), area)

updateCollisionAreas(areas, ovs, active) ==
  LET activeIds == {IdOf(ovs[active[k]]) : k \in 1..Len(active)}
  IN  SeqFilter(areas, LAMBDA a : IdOf(a) \in activeIds)

\* style.size || 60
QteSize(o) ==
  IF Has(o, "style") /\ Has(o.style, "size") /\ o.style.size # Num(0) /\ ~IsNaN(o.style.size)
  THEN o.style.size ELSE Num(DefaultQteSize)

\* only the properties of p that are defined on o
Pick(o, p) == [q \in (p \cap DOMAIN o) |-> o[q]]

\* the area object built by renderQTE
QteArea(o) ==
  [type |-> "qte", width |-> QteSize(o), height |-> QteSize(o)]
    @@ Pick(o, {"id", "x", "y", "key", "action"})

\* trackOffset?.x || 0
OffsetOf(o, axis) ==
  IF Has(o, "trackOffset") /\ Has(o.trackOffset, axis) /\ ~IsNaN(o.trackOffset[axis])
  THEN o.trackOffset[axis] ELSE Num(0)

\* overlay.x/y = bounds.x/y + offset, and width/height when trackSize is set
BindTo(o, bounds) ==
  IF bounds = NULL THEN o
  ELSE ObjectAssign(o,
         [x |-> NumAdd(bounds.x, OffsetOf(o, "x")),
          y |-> NumAdd(bounds.y, OffsetOf(o, "y"))]
           @@ (IF TruthyBool(o, "trackSize")
               THEN [width |-> bounds.width, height |-> bounds.height]
               ELSE EmptyObj))

\* the track binding at the head of renderOverlay: writes the resolved
\* geometry into the overlay object itself
ResolveTrack(o, tracks, frame) ==
  IF ~TruthyStr(o, "trackId") THEN o
  ELSE BindTo(o, getTrackedBounds(tracks, o.trackId, frame))

\* renderAscii and renderPopup call overlay.content.split(...): a TypeError
\* when content is undefined
RendererThrows(o) ==
  /\ Has(o, "type")
  /\ o.type \in {"ascii", "popup"}
  /\ ~Has(o, "content")

\* renderImage caches the image element on the overlay at its first render
RendererMutation(o) ==
  IF Has(o, "type") /\ o.type = "image" /\ ~Has(o, "imageElement")
  THEN ObjectAssign(o, [imageElement |-> "img"])
  ELSE o

\* renderQTE registers an area unless interactive is false
RegistersArea(o) ==
  /\ Has(o, "type")
  /\ o.type = "qte"
  /\ ~(Has(o, "interactive") /\ o.interactive = FALSE)

\* const style = overlay.style || {}
StyleOf(o) == IF Has(o, "style") THEN o.style ELSE EmptyObj

\* o[p] || default, for a number
NumOr(o, p, default) ==
  IF Has(o, p) /\ ~IsNaN(o[p]) /\ o[p].n # 0 THEN o[p] ELSE default

NumLess(a, b) == ~IsNaN(a) /\ ~IsNaN(b) /\ a.n * b.d < b.n * a.d

\* Math.max and Math.min of two numbers
NumMax(a, b) == IF IsNaN(a) \/ IsNaN(b) THEN NaN ELSE IF NumLess(a, b) THEN b ELSE a
NumMin(a, b) == IF IsNaN(a) \/ IsNaN(b) THEN NaN ELSE IF NumLess(b, a) THEN b ELSE a

\* overlay.content || ''
ContentOf(o) == IF TruthyStr(o, "content") THEN o.content ELSE ""

\* renderTerminalText: the visibleChars it computes at the frame
VisibleChars(o, frame) ==
  IF Has(StyleOf(o), "typewriter") /\ StyleOf(o).typewriter = FALSE
  THEN Num(Len(ContentOf(o)))
  ELSE NumMin(Num(Len(ContentOf(o))),
              Floor(NumMul(NumMax(Num(0),
                                  NumSub(Num(frame - o.frameStart),
                                         NumOr(StyleOf(o), "typewriterDelay", Num(0)))),
                           NumOr(StyleOf(o), "charsPerFrame", Round(1, 2)))))

\* renderArrow: showArrowHead
ShowArrowHead(o) ==
  o.type = "arrow" \/ ~(Has(StyleOf(o), "arrowHead") /\ StyleOf(o).arrowHead = FALSE)

\* drawProgress without the Math.min
DrawProgressUnclamped(o, frame) ==
  IF Has(StyleOf(o), "animated") /\ StyleOf(o).animated = FALSE
  THEN Num(1)
  ELSE NumDiv(Num(frame - o.frameStart),
              NumOr(StyleOf(o), "animationFrames", Num(DefaultAnimationFrames)))

\* renderArrow: drawProgress at the frame
DrawProgress(o, frame) ==
  IF Has(StyleOf(o), "animated") /\ StyleOf(o).animated = FALSE
  THEN Num(1)
  ELSE NumMin(Num(1), NumDiv(Num(frame - o.frameStart),
                             NumOr(StyleOf(o), "animationFrames", Num(DefaultAnimationFrames))))

\* renderArrow: whether drawArrowHead is called at the frame
DrawsArrowHead(o, frame) ==
  ShowArrowHead(o) /\ NumLess(Round(1, 10), DrawProgress(o, frame))

\* the switch of renderOverlay on the overlay o at store position i;
\* r is [overlays, collisionAreas, dispatched, status]
Dispatch(r, i, o) ==
  IF RendererThrows(o)
  THEN [r EXCEPT !.overlays[i] = o, !.status = "threw"]
  ELSE [overlays |-> [r.overlays EXCEPT ![i] = RendererMutation(o)],
        collisionAreas |-> IF RegistersArea(o)
                           THEN registerCollisionArea(r.collisionAreas, QteArea(o))
                           ELSE r.collisionAreas,
        dispatched |-> Append(r.dispatched, i),
        status |-> r.status]

\* one renderOverlay(overlay) call on the overlay at store position i
renderOverlay(r, i, tracks, frame) ==
  Dispatch(r, i, ResolveTrack(r.overlays[i], tracks, frame))

\* for (const overlay of this.activeOverlays) this.renderOverlay(overlay),
\* from the k-th active overlay on, until one throws
RECURSIVE RenderEach(_, _, _, _, _)
RenderEach(r, active, k, tracks, frame) ==
  IF k > Len(active) \/ r.status = "threw" THEN r
  ELSE RenderEach(renderOverlay(r, active[k], tracks, frame), active, k + 1, tracks, frame)

\* the end of render(): updateCollisionAreas() unless a renderer threw
FinishRender(drawn, active) ==
  [overlays |-> drawn.overlays,
   activeOverlays |-> active,
   collisionAreas |->
     IF drawn.status = "threw" THEN drawn.collisionAreas
     ELSE updateCollisionAreas(drawn.collisionAreas, drawn.overlays, active),
   dispatched |-> drawn.dispatched,
   status |-> drawn.status]

\* render() with the active positions computed
RenderActive(ovs, active, areas, tracks, frame) ==
  FinishRender(RenderEach([overlays |-> ovs, collisionAreas |-> areas,
                           dispatched |-> <<>>, status |-> "completed"],
                          active, 1, tracks, frame),
               active)

\* render(): the engine after the call, as
\* [overlays, activeOverlays, collisionAreas, dispatched, status]
render(ovs, active0, areas, tracks, frame, hasCtx) ==
  IF ~hasCtx
  THEN [overlays |-> ovs, activeOverlays |-> active0, collisionAreas |-> areas,
        dispatched |-> <<>>, status |-> "skipped"]
  ELSE RenderActive(ovs, ActivePositions(ovs, frame, 1), areas, tracks, frame)

\* the engine takes the outcome r of a render() call
ApplyRender(r) ==
  /\ overlays' = r.overlays
  /\ activeOverlays' = r.activeOverlays
  /\ collisionAreas' = r.collisionAreas
  /\ dispatched' = r.dispatched
  /\ renderStatus' = r.status

\* this.render() on a store ovs, tracks trk and frame f, written to the next state
DoRender(ovs, trk, f) ==
  ApplyRender(render(ovs, activeOverlays, collisionAreas, trk, f, ctx))

-----------------------------------------------------------------------------
(* Identifier generation: `overlay_${Date.now()}_${random}` and              *)
(* `track_${Date.now()}_${random}` are strings no object of the engine holds *)

RECURSIVE FreshId(_, _, _)
FreshId(prefix, used, k) ==
  IF (prefix \o ToString(k)) \in used THEN FreshId(prefix, used, k + 1)
  ELSE prefix \o ToString(k)

UsedOverlayIds ==
  {IdOf(overlays[i]) : i \in 1..Len(overlays)}
    \cup {IdOf(collisionAreas[i]) : i \in 1..Len(collisionAreas)}

UsedTrackIds ==
  {trackedObjects[i].id : i \in 1..Len(trackedObjects)}
    \cup {overlays[i].trackId : i \in {j \in 1..Len(overlays) : Has(overlays[j], "trackId")}}

\* requestAnimationFrame returns a handle that is not in use
FreshHandle(pending, current) ==
  CHOOSE h \in 1..(Cardinality(pending) + 2) :
    /\ h \notin pending \cup {current}
    /\ \A g \in 1..(h - 1) : g \in pending \cup {current}

-----------------------------------------------------------------------------
(* Video loading and playback *)

engineVars == <<video, ctx, fps, isPlaying, currentFrame, totalFrames, animationId, rafPending>>
storeVars == <<overlays, activeOverlays, collisionAreas, dispatched, renderStatus>>
sizeVars == <<videoWidth, videoHeight>>
queryVars == <<lastBounds, lastQuery, held, converted, notified, timecode, editorVars, prompted>>

\* the picture size of the media the host loads
MediaSize == [videoWidth |-> 2 * MaxDuration, videoHeight |-> MaxDuration]

\* the 'loadedmetadata' handler of loadVideo(), followed by setupCanvas();
\* the host loads one video
LoadVideo(duration) ==
  /\ video = NULL
  /\ video' = [currentTime |-> 0, duration |-> duration, paused |-> TRUE]
  /\ videoWidth' = MediaSize.videoWidth
  /\ videoHeight' = MediaSize.videoHeight
  /\ totalFrames' = timeToFrame(duration, fps)
  /\ ctx' = TRUE
  /\ UNCHANGED <<fps, isPlaying, currentFrame, animationId, rafPending,
                 storeVars, trackedObjects, queryVars>>

\* seekToFrame once frame is clamped; the media element keeps its clock
\* within the duration
SeekClamped(f) ==
  /\ video' = [video EXCEPT !.currentTime = Min(frameToTime(f, fps), video.duration)]
  /\ currentFrame' = f
  /\ DoRender(overlays, trackedObjects, f)

\* seekToFrame(frame); without a video the assignment to video.currentTime
\* throws before anything changed
seekToFrame(frame) ==
  /\ video # NULL
  /\ SeekClamped(Max(0, Min(frame, totalFrames - 1)))
  /\ UNCHANGED <<ctx, fps, isPlaying, totalFrames, animationId, rafPending,
                 trackedObjects, sizeVars, queryVars>>

stepFrames(delta) == seekToFrame(currentFrame + delta)

\* this.animationId = requestAnimationFrame(this.renderLoop), h having run
Reschedule(h, g) ==
  /\ animationId' = g
  /\ rafPending' = (rafPending \ {h}) \cup {g}

\* play(); without a video isPlaying is set and video.play() throws
play ==
  /\ ~isPlaying
  /\ isPlaying' = TRUE
  /\ IF video = NULL
     THEN UNCHANGED <<video, animationId, rafPending>>
     ELSE /\ video' = [video EXCEPT !.paused = FALSE]
          /\ Reschedule(0, FreshHandle(rafPending, animationId))
  /\ UNCHANGED <<ctx, fps, currentFrame, totalFrames, storeVars, trackedObjects, sizeVars, queryVars>>

\* pause(); without a video isPlaying is cleared and video.pause() throws
pause ==
  /\ isPlaying' = FALSE
  /\ IF video = NULL
     THEN UNCHANGED <<video, animationId, rafPending>>
     ELSE /\ video' = [video EXCEPT !.paused = TRUE]
          /\ IF animationId # 0
             THEN /\ rafPending' = rafPending \ {animationId}
                  /\ animationId' = 0
             ELSE UNCHANGED <<animationId, rafPending>>
  /\ UNCHANGED <<ctx, fps, currentFrame, totalFrames, storeVars, trackedObjects, sizeVars, queryVars>>

\* the media element advances its clock by dt while it plays, up to the duration
MediaAdvance(dt) ==
  /\ video # NULL
  /\ ~video.paused
  /\ video.currentTime < video.duration
  /\ video' = [video EXCEPT !.currentTime = Min(video.currentTime + dt, video.duration)]
  /\ UNCHANGED <<ctx, fps, isPlaying, currentFrame, totalFrames, animationId, rafPending,
                 storeVars, trackedObjects, sizeVars, queryVars>>

\* the frame change of renderLoop; a throwing render leaves the loop
\* without a new requestAnimationFrame
TickRender(h, r) ==
  /\ ApplyRender(r)
  /\ IF r.status = "threw"
     THEN /\ rafPending' = rafPending \ {h}
          /\ UNCHANGED animationId
     ELSE Reschedule(h, FreshHandle(rafPending \ {h}, animationId))

\* the host runs the pending callback h: renderLoop()
renderLoop(h) ==
  /\ h \in rafPending
  /\ IF ~isPlaying
     THEN /\ rafPending' = rafPending \ {h}
          /\ UNCHANGED <<currentFrame, animationId, storeVars>>
     ELSE IF timeToFrame(video.currentTime, fps) # currentFrame
     THEN /\ currentFrame' = timeToFrame(video.currentTime, fps)
          /\ TickRender(h, render(overlays, activeOverlays, collisionAreas, trackedObjects,
                                  timeToFrame(video.currentTime, fps), ctx))
     ELSE /\ Reschedule(h, FreshHandle(rafPending \ {h}, animationId))
          /\ UNCHANGED <<currentFrame, storeVars>>
  /\ UNCHANGED <<video, ctx, fps, isPlaying, totalFrames, trackedObjects, sizeVars, queryVars>>

\* togglePlay()
togglePlay == IF isPlaying THEN pause ELSE play

\* play() and pause() called while a tick is running, on the playback
\* fields p = [isPlaying, paused, animationId, rafPending] as they stand
AfterPlay(p) ==
  IF p.isPlaying THEN p
  ELSE [isPlaying |-> TRUE, paused |-> FALSE,
        animationId |-> FreshHandle(p.rafPending, p.animationId),
        rafPending |-> p.rafPending \cup {FreshHandle(p.rafPending, p.animationId)}]

AfterPause(p) ==
  [isPlaying |-> FALSE, paused |-> TRUE, animationId |-> 0,
   rafPending |-> IF p.animationId # 0 THEN p.rafPending \ {p.animationId}
                  ELSE p.rafPending]

\* the calls the host's onFrameChange callback makes on the engine, in turn
RECURSIVE AfterCalls(_, _)
AfterCalls(p, calls) ==
  IF calls = <<>> THEN p
  ELSE AfterCalls(IF Head(calls) = "pause" THEN AfterPause(p) ELSE AfterPlay(p),
                  Tail(calls))

\* the end of a tick whose render returned: onFrameChange(frame) runs, and
\* then this.animationId = requestAnimationFrame(this.renderLoop)
NotifyAndReschedule(p, frame) ==
  /\ notified' = frame
  /\ isPlaying' = p.isPlaying
  /\ video' = [video EXCEPT !.paused = p.paused]
  /\ animationId' = FreshHandle(p.rafPending, p.animationId)
  /\ rafPending' = p.rafPending \cup {FreshHandle(p.rafPending, p.animationId)}

\* renderLoop() run by the host as the pending callback h, on an engine
\* whose onFrameChange makes the given calls
renderLoopNotifying(h, calls) ==
  /\ h \in rafPending
  /\ IF ~isPlaying
     THEN /\ rafPending' = rafPending \ {h}
          /\ notified' = NULL
          /\ UNCHANGED <<video, isPlaying, currentFrame, animationId, storeVars>>
     ELSE IF timeToFrame(video.currentTime, fps) # currentFrame
     THEN /\ currentFrame' = timeToFrame(video.currentTime, fps)
          /\ ApplyRender(render(overlays, activeOverlays, collisionAreas, trackedObjects,
                                timeToFrame(video.currentTime, fps), ctx))
          /\ IF renderStatus' = "threw"
             THEN /\ rafPending' = rafPending \ {h}
                  /\ notified' = NULL
                  /\ UNCHANGED <<video, isPlaying, animationId>>
             ELSE NotifyAndReschedule(
                    AfterCalls([isPlaying |-> isPlaying, paused |-> video.paused,
                                animationId |-> animationId,
                                rafPending |-> rafPending \ {h}], calls),
                    timeToFrame(video.currentTime, fps))
     ELSE /\ Reschedule(h, FreshHandle(rafPending \ {h}, animationId))
          /\ notified' = NULL
          /\ UNCHANGED <<video, isPlaying, currentFrame, storeVars>>
  /\ UNCHANGED <<ctx, fps, totalFrames, trackedObjects, sizeVars,
                 lastBounds, lastQuery, held, converted, timecode, editorVars, prompted>>

-----------------------------------------------------------------------------
(* Overlay store *)

\* the defaults addOverlay writes into the overlay it is given
WithId(o, used) ==
  IF ~TruthyStr(o, "id") THEN ObjectAssign(o, [id |-> FreshId("overlay_", used, 1)]) ELSE o

WithFrameStart(o, frame) ==
  IF ~Has(o, "frameStart") THEN ObjectAssign(o, [frameStart |-> frame]) ELSE o

WithFrameEnd(o, rate) ==
  IF ~Has(o, "frameEnd") THEN ObjectAssign(o, [frameEnd |-> o.frameStart + rate]) ELSE o

WithDefaults(o, frame, rate, used) ==
  WithFrameEnd(WithFrameStart(WithId(o, used), frame), rate)

addOverlay(o) ==
  /\ Len(overlays) < MaxOverlays
  /\ DoRender(Append(overlays, WithDefaults(o, currentFrame, fps, UsedOverlayIds)),
              trackedObjects, currentFrame)
  /\ UNCHANGED <<engineVars, trackedObjects, sizeVars, queryVars>>

\* An array in the host's hands is either the store's own array (live) or
\* another array with its own items.
ItemsOf(list, ovs) == IF list.live THEN ovs ELSE list.items

\* this.overlays = <a new array>: a list that was the store's array keeps
\* the items it had
Detached(list, ovs) ==
  IF list # NULL /\ list.live THEN [live |-> FALSE, items |-> ovs] ELSE list

\* the filter builds a new array and assigns it to this.overlays
removeOverlay(id) ==
  /\ DoRender(SeqFilter(overlays, LAMBDA o : IdOf(o) # id), trackedObjects, currentFrame)
  /\ held' = Detached(held, overlays)
  /\ UNCHANGED <<engineVars, trackedObjects, sizeVars, lastBounds, lastQuery, converted, notified, timecode, editorVars, prompted>>

\* this.overlays.find(o => o.id === id): position of the first match, or 0
FindOverlay(ovs, id) ==
  LET hits == {i \in 1..Len(ovs) : IdOf(ovs[i]) = id}
  IN  IF hits = {} THEN 0 ELSE CHOOSE i \in hits : \A j \in hits : i <= j

\* Object.assign(overlay, updates) on the overlay at position i, then render()
AssignAt(i, updates) ==
  IF i # 0
  THEN DoRender([overlays EXCEPT ![i] = ObjectAssign(overlays[i], updates)],
                trackedObjects, currentFrame)
  ELSE UNCHANGED storeVars

updateOverlay(id, updates) ==
  /\ AssignAt(FindOverlay(overlays, id), updates)
  /\ UNCHANGED <<engineVars, trackedObjects, sizeVars, queryVars>>

\* return this.overlays
getOverlaysLive(ovs) == [live |-> TRUE, items |-> ovs]

\* return [...this.overlays]
getOverlays(ovs) == [live |-> FALSE, items |-> ovs]

\* the host calls getOverlays() and keeps the list
callGetOverlays ==
  /\ held' = getOverlays(overlays)
  /\ UNCHANGED <<engineVars, storeVars, trackedObjects, sizeVars, lastBounds, lastQuery, converted, notified, timecode, editorVars, prompted>>

\* the host writes to the array it holds; when that array is the store's,
\* the store has the new items
WriteList(items) ==
  /\ IF held.live
     THEN overlays' = items /\ UNCHANGED held
     ELSE held' = [held EXCEPT !.items = items] /\ UNCHANGED overlays
  /\ UNCHANGED <<engineVars, activeOverlays, collisionAreas, dispatched, renderStatus,
                 trackedObjects, sizeVars, lastBounds, lastQuery, converted, notified, timecode, editorVars, prompted>>

\* list.push(item)
pushToList(item) ==
  /\ held # NULL
  /\ Len(ItemsOf(held, overlays)) < MaxOverlays
  /\ WriteList(Append(ItemsOf(held, overlays), item))

\* list.shift()
shiftList ==
  /\ held # NULL
  /\ ItemsOf(held, overlays) # <<>>
  /\ WriteList(Tail(ItemsOf(held, overlays)))

Reverse(s) == [i \in 1..Len(s) |-> s[Len(s) + 1 - i]]

\* list.reverse()
reverseList ==
  /\ held # NULL
  /\ Reverse(ItemsOf(held, overlays)) # ItemsOf(held, overlays)
  /\ WriteList(Reverse(ItemsOf(held, overlays)))

-----------------------------------------------------------------------------
(* Object tracker operations *)

\* the track object trackObject stores
NewTrack(tid, startFrame, endFrame, initialBounds) ==
  [id |-> tid, startFrame |-> startFrame, endFrame |-> endFrame,
   keyframes |-> <<[frame |-> startFrame, bounds |-> initialBounds]>>]

SetTrack(tid, startFrame, endFrame, initialBounds) ==
  trackedObjects' = MapSet(trackedObjects, tid,
                           NewTrack(tid, startFrame, endFrame, initialBounds))

trackObject(id, startFrame, endFrame, initialBounds) ==
  /\ MapHas(trackedObjects, id) \/ Len(trackedObjects) < MaxTracks
  /\ SetTrack(IF id = "" THEN FreshId("track_", UsedTrackIds, 1) ELSE id,
              startFrame, endFrame, initialBounds)
  /\ UNCHANGED <<engineVars, storeVars, sizeVars, queryVars>>

\* a keyframe pushed and sorted in without removing the one at its frame
WithKeyframeKept(track, frame, bounds) ==
  [track EXCEPT !.keyframes =
     SortByFrame(Append(track.keyframes, [frame |-> frame, bounds |-> bounds]))]

\* the keyframe at this frame removed, the new one pushed, the list sorted
WithKeyframe(track, frame, bounds) ==
  [track EXCEPT !.keyframes =
     SortByFrame(Append(SeqFilter(track.keyframes, LAMBDA kf : kf.frame # frame),
                        [frame |-> frame, bounds |-> bounds]))]

addKeyframe(trackId, frame, bounds) ==
  /\ IF ~MapHas(trackedObjects, trackId)
     THEN UNCHANGED trackedObjects
     ELSE trackedObjects' = MapSet(trackedObjects, trackId,
                                   WithKeyframe(MapGet(trackedObjects, trackId), frame, bounds))
  /\ UNCHANGED <<engineVars, storeVars, sizeVars, queryVars>>

removeTrackedObject(trackId) ==
  /\ trackedObjects' = MapDelete(trackedObjects, trackId)
  /\ UNCHANGED <<engineVars, storeVars, sizeVars, queryVars>>

\* a call of getTrackedBounds(trackId, frame) by the host
queryTrackedBounds(trackId, frame) ==
  /\ lastBounds' = getTrackedBounds(trackedObjects, trackId, frame)
  /\ lastQuery' = [trackId |-> trackId, frame |-> frame]
  /\ UNCHANGED <<engineVars, storeVars, trackedObjects, sizeVars, held, converted, notified, timecode, editorVars, prompted>>

\* the host calls frameToTime(frame) and keeps the result
callFrameToTime(frame) ==
  /\ converted' = [frame |-> frame, time |-> frameToTimeNum(Num(frame), Num(fps))]
  /\ UNCHANGED <<engineVars, storeVars, trackedObjects, sizeVars, lastBounds, lastQuery, held, notified, timecode, editorVars, prompted>>

\* the host calls timeToFrame on the time it was given
callTimeToFrame ==
  /\ converted # NULL
  /\ converted' = [frame |-> converted.frame, time |-> converted.time,
                   back |-> timeToFrameNum(converted.time, Num(fps))]
  /\ UNCHANGED <<engineVars, storeVars, trackedObjects, sizeVars, lastBounds, lastQuery, held, notified, timecode, editorVars, prompted>>

\* the host calls GIVEScript.frameToTimecode(frame) and keeps the string
callFrameToTimecode(frame) ==
  /\ timecode' = [rate |-> fps, frame |-> frame,
                  text |-> frameToTimecode(Num(frame), Num(fps))]
  /\ UNCHANGED <<engineVars, storeVars, trackedObjects, sizeVars,
                 lastBounds, lastQuery, held, converted, notified, editorVars, prompted>>

\* the host calls GIVEScript.timecodeToFrame on a string
callTimecodeToFrame(str) ==
  /\ timecode' = IF timecode # NULL /\ Has(timecode, "frame") /\ timecode.text = str
                    /\ timecode.rate = fps
                 THEN [rate |-> fps, frame |-> timecode.frame, text |-> str,
                       back |-> timecodeToFrame(str, Num(fps))]
                 ELSE [rate |-> fps, text |-> str, back |-> timecodeToFrame(str, Num(fps))]
  /\ UNCHANGED <<engineVars, storeVars, trackedObjects, sizeVars,
                 lastBounds, lastQuery, held, converted, notified, editorVars, prompted>>

-----------------------------------------------------------------------------
(* GIVEScript.terminalText *)

\* Math.ceil
MathCeil(a) == IF IsNaN(a) THEN NaN ELSE Num(-((-a.n) \div a.d))

\* GIVEScript.secondsToFrames
secondsToFrames(seconds, rate) == MathRound(NumMul(seconds, Num(rate)))

\* options.charsPerFrame || 0.5
CharsPerFrameOf(options) == NumOr(options, "charsPerFrame", Round(1, 2))

\* the duration terminalText computes when options.duration is not given:
\* the typing frames and a pause of one second, in seconds
TypingDuration(text, options, rate) ==
  NumDiv(NumAdd(MathCeil(NumDiv(Round(Len(text), 1), CharsPerFrameOf(options))), Num(rate)),
         Num(rate))

\* the overlay terminalText hands to addOverlay for a frame number and
\* options without duration and frameEnd; of the style, the typewriter
\* settings
terminalText(text, frameStart, options, rate) ==
  [type |-> "terminal_text",
   content |-> text,
   frameStart |-> frameStart,
   frameEnd |-> frameStart + secondsToFrames(TypingDuration(text, options, rate), rate).n,
   style |-> [charsPerFrame |-> CharsPerFrameOf(options),
              typewriter |-> ~(Has(options, "typewriter") /\ options.typewriter = FALSE),
              typewriterDelay |-> NumOr(options, "typewriterDelay", Num(0))]]

-----------------------------------------------------------------------------
(* Keyboard input *)

\* String.prototype.toLowerCase on the keys of the model
toLowerCase(str) ==
  IF str = "X" THEN "x" ELSE IF str = "Y" THEN "y" ELSE str

\* the positions of the areas handleKeyPress looks at before it returns or
\* throws: up to the first QTE area without a key (a TypeError) or with the
\* key pressed
RECURSIVE FirstQteMatch(_, _, _)
FirstQteMatch(areas, key, i) ==
  IF i > Len(areas) THEN [at |-> 0, threw |-> FALSE]
  ELSE IF areas[i].type = "qte" /\ ~Has(areas[i], "key") THEN [at |-> 0, threw |-> TRUE]
  ELSE IF areas[i].type = "qte" /\ toLowerCase(areas[i].key) = toLowerCase(key)
       THEN [at |-> i, threw |-> FALSE]
  ELSE FirstQteMatch(areas, key, i + 1)

\* the argument of the onQTEPrompt call for the area, with the key pressed
\* and the frame of the call
PromptFor(area, key) ==
  [key |-> key,
   frame |-> currentFrame,
   found |-> FindOverlay(overlays, IdOf(area)) # 0,
   overlay |-> IF FindOverlay(overlays, IdOf(area)) # 0
               THEN overlays[FindOverlay(overlays, IdOf(area))] ELSE UNDEFINED]

\* handleKeyPress(event) with an onQTEPrompt callback installed
handleKeyPress(key) ==
  /\ prompted' = IF FirstQteMatch(collisionAreas, key, 1).at = 0 THEN <<>>
                 ELSE <<PromptFor(collisionAreas[FirstQteMatch(collisionAreas, key, 1).at], key)>>
  /\ UNCHANGED <<engineVars, storeVars, trackedObjects, sizeVars, lastBounds, lastQuery,
                 held, converted, notified, timecode, editorVars>>

-----------------------------------------------------------------------------
(* The editor (GIVEEditor): tools, selection, history *)

\* this.maxHistory: 50 in the constructor, MaxHistory in the model
maxHistory == MaxHistory

\* the geometry properties, numbers in every overlay that has them
NumberFields == {"x", "y", "width", "height"}

\* JSON.parse(JSON.stringify(o)) of one overlay: NaN is written as null and
\* an image element as {}
JsonCopy(o) ==
  [k \in DOMAIN o |->
     IF k \in NumberFields /\ IsNaN(o[k]) THEN NULL
     ELSE IF k = "imageElement" THEN EmptyObj
     ELSE o[k]]

\* JSON.stringify(list), as the list JSON.parse makes of it
JsonStringify(list) == [i \in 1..Len(list) |-> JsonCopy(list[i])]

\* saveHistory() with every push advancing the index
saveHistoryAdvancing(hist, index, ovs) ==
  LET kept == IF index < Len(hist) - 1 THEN SubSeq(hist, 1, index + 1) ELSE hist
      pushed == Append(kept, JsonStringify(getOverlays(ovs).items))
  IN  IF Len(pushed) > maxHistory
      THEN [history |-> Tail(pushed), historyIndex |-> index + 1]
      ELSE [history |-> pushed, historyIndex |-> index + 1]

\* saveHistory(): the editor's history and index after the call
saveHistory(hist, index, ovs) ==
  LET kept == IF index < Len(hist) - 1 THEN SubSeq(hist, 1, index + 1) ELSE hist
      pushed == Append(kept, JsonStringify(getOverlays(ovs).items))
  IN  IF Len(pushed) > maxHistory
      THEN [history |-> Tail(pushed), historyIndex |-> index]
      ELSE [history |-> pushed, historyIndex |-> index + 1]

\* the editor saves the history before it changes the overlay list
SaveBeforeEdit ==
  /\ history' = saveHistory(history, historyIndex, overlays).history
  /\ historyIndex' = saveHistory(history, historyIndex, overlays).historyIndex
  /\ lastEdit' = [op |-> "edit", before |-> JsonStringify(overlays)]

\* one more this.engine.render() after the render that left r, unless that
\* one threw
RenderAgain(r) ==
  IF r.status = "threw" THEN r
  ELSE render(r.overlays, r.activeOverlays, r.collisionAreas, trackedObjects, currentFrame, ctx)

\* selectOverlay(id): getOverlay(id), then render
selectOverlay(i) ==
  /\ i \in 1..Len(overlays)
  /\ selectedOverlay' = i
  /\ DoRender(overlays, trackedObjects, currentFrame)
  /\ UNCHANGED <<engineVars, trackedObjects, sizeVars, lastBounds, lastQuery, held,
                 converted, notified, timecode, history, historyIndex, lastEdit, prompted>>

\* the overlay createTextOverlay builds at the frame
TextTool(frame, rate) ==
  [type |-> "text", content |-> "hi", x |-> Num(1), y |-> Num(2),
   frameStart |-> frame, frameEnd |-> frame + rate * 3]

\* create...Overlay: saveHistory(), addOverlay(overlay), selectOverlay(id);
\* a render that throws ends the handler
createOverlay(o) ==
  /\ Len(overlays) < MaxEdited
  /\ SaveBeforeEdit
  /\ LET stored == WithDefaults(o, currentFrame, fps, UsedOverlayIds)
         added == render(Append(overlays, stored), activeOverlays, collisionAreas,
                         trackedObjects, currentFrame, ctx)
     IN  /\ ApplyRender(RenderAgain(added))
         /\ selectedOverlay' = IF added.status = "threw" THEN selectedOverlay
                               ELSE FindOverlay(added.overlays, IdOf(stored))
  /\ UNCHANGED <<engineVars, trackedObjects, sizeVars, lastBounds, lastQuery, held,
                 converted, notified, timecode, prompted>>

\* deleteSelectedOverlay()
deleteSelectedOverlay ==
  /\ selectedOverlay # 0
  /\ SaveBeforeEdit
  /\ LET removed == render(SeqFilter(overlays, LAMBDA o : IdOf(o) # IdOf(overlays[selectedOverlay])),
                           activeOverlays, collisionAreas, trackedObjects, currentFrame, ctx)
     IN  /\ ApplyRender(RenderAgain(removed))
         /\ selectedOverlay' = IF removed.status = "threw" THEN selectedOverlay ELSE 0
  /\ held' = Detached(held, overlays)
  /\ UNCHANGED <<engineVars, trackedObjects, sizeVars, lastBounds, lastQuery, converted,
                 notified, timecode, prompted>>

\* updateOverlayProperty(e) for a property without a dot
updateOverlayProperty(prop, value) ==
  /\ selectedOverlay # 0
  /\ SaveBeforeEdit
  /\ DoRender([overlays EXCEPT ![selectedOverlay] =
                 ObjectAssign(overlays[selectedOverlay], [k \in {prop} |-> value])],
              trackedObjects, currentFrame)
  /\ UNCHANGED <<engineVars, trackedObjects, sizeVars, lastBounds, lastQuery, held,
                 converted, notified, timecode, selectedOverlay, prompted>>

\* the end of undo() and redo(): engine.overlays = JSON.parse(the snapshot),
\* render(), deselectOverlay()
RestoreSnapshot(index) ==
  /\ historyIndex' = index
  /\ LET restored == render(history[index + 1], activeOverlays, collisionAreas,
                            trackedObjects, currentFrame, ctx)
     IN  /\ ApplyRender(RenderAgain(restored))
         /\ selectedOverlay' = IF restored.status = "threw" THEN selectedOverlay ELSE 0
  /\ held' = Detached(held, overlays)

undo ==
  /\ lastEdit' = IF Has(lastEdit, "op") /\ lastEdit.op = "edit"
                 THEN [op |-> "undo", before |-> JsonStringify(overlays),
                       target |-> lastEdit.before]
                 ELSE [op |-> "undo", before |-> JsonStringify(overlays)]
  /\ IF historyIndex <= 0
     THEN UNCHANGED <<storeVars, historyIndex, selectedOverlay, held>>
     ELSE RestoreSnapshot(historyIndex - 1)
  /\ UNCHANGED <<engineVars, trackedObjects, sizeVars, lastBounds, lastQuery, converted,
                 notified, timecode, history, prompted>>

redo ==
  /\ lastEdit' = IF Has(lastEdit, "op") /\ lastEdit.op = "undo" /\ Has(lastEdit, "target")
                 THEN [op |-> "redo", target |-> lastEdit.before]
                 ELSE [op |-> "redo"]
  /\ IF historyIndex >= Len(history) - 1
     THEN UNCHANGED <<storeVars, historyIndex, selectedOverlay, held>>
     ELSE RestoreSnapshot(historyIndex + 1)
  /\ UNCHANGED <<engineVars, trackedObjects, sizeVars, lastBounds, lastQuery, converted,
                 notified, timecode, history, prompted>>

-----------------------------------------------------------------------------
(* Project import *)

\* the for-of loop of loadProject: trackedObjects.set(track.id, track)
RECURSIVE SetAll(_, _)
SetAll(m, tracks) ==
  IF tracks = <<>> THEN m
  ELSE SetAll(MapSet(m, Head(tracks).id, Head(tracks)), Tail(tracks))

\* loadProject() that also rewinds to frame 0
loadProjectRewinding(project) ==
  /\ fps' = IF Has(project, "fps") /\ project.fps # 0 THEN project.fps ELSE fps
  /\ trackedObjects' = IF Has(project, "trackedObjects")
                       THEN SetAll(<<>>, project.trackedObjects) ELSE <<>>
  /\ DoRender(IF Has(project, "overlays") THEN project.overlays ELSE <<>>,
              trackedObjects', 0)
  /\ currentFrame' = 0
  /\ held' = Detached(held, overlays)
  /\ UNCHANGED <<video, ctx, isPlaying, totalFrames, animationId,
                 rafPending, sizeVars, lastBounds, lastQuery, converted, notified, timecode, editorVars, prompted>>

loadProject(project) ==
  /\ fps' = IF Has(project, "fps") /\ project.fps # 0 THEN project.fps ELSE fps
  /\ trackedObjects' = IF Has(project, "trackedObjects")
                       THEN SetAll(<<>>, project.trackedObjects) ELSE <<>>
  /\ DoRender(IF Has(project, "overlays") THEN project.overlays ELSE <<>>,
              trackedObjects', currentFrame)
  /\ held' = Detached(held, overlays)
  /\ UNCHANGED <<video, ctx, isPlaying, currentFrame, totalFrames, animationId,
                 rafPending, sizeVars, lastBounds, lastQuery, converted, notified, timecode, editorVars, prompted>>

\* const { imageElement, ...clean } = o
Clean(o) == [k \in DOMAIN o \ {"imageElement"} |-> o[k]]

\* the object exportProject() returns in the current state
exportProject ==
  [version |-> "1.0",
   fps |-> fps,
   videoWidth |-> videoWidth,
   videoHeight |-> videoHeight,
   totalFrames |-> totalFrames,
   overlays |-> [i \in 1..Len(overlays) |-> Clean(overlays[i])],
   trackedObjects |-> trackedObjects]

-----------------------------------------------------------------------------
(* The engine as a state machine *)

\* the state the constructor leaves
Init ==
  /\ video = NULL
  /\ ctx = FALSE
  /\ fps = DefaultFps
  /\ isPlaying = FALSE
  /\ currentFrame = 0
  /\ totalFrames = 0
  /\ animationId = 0
  /\ rafPending = {}
  /\ overlays = <<>>
  /\ activeOverlays = <<>>
  /\ collisionAreas = <<>>
  /\ trackedObjects = <<>>
  /\ renderStatus = "none"
  /\ dispatched = <<>>
  /\ lastBounds = NULL
  /\ lastQuery = NULL
  /\ held = NULL
  /\ converted = NULL
  /\ notified = NULL
  /\ timecode = NULL
  /\ history = <<>>
  /\ historyIndex = -1
  /\ selectedOverlay = 0
  /\ lastEdit = NULL
  /\ prompted = <<>>
  /\ videoWidth = 0
  /\ videoHeight = 0

-----------------------------------------------------------------------------
(* Inputs of the host *)

B(x, y, w, h) == [x |-> x, y |-> y, width |-> w, height |-> h]

FrameUnits == TimeUnitsPerSecond \div DefaultFps   \* one frame at the default rate

Durations == {MaxDuration}
SeekFrames == {-1} \cup (0..MaxFrame)
StepDeltas == {-1, 1}
UnknownIds == {"zz"}

\* two QTE prompts under the same caller-supplied id and an ASCII overlay
\* without content (malformed)
QteA == [id |-> "a", type |-> "qte", key |-> "X", x |-> Num(10), y |-> Num(20),
         frameStart |-> 1, frameEnd |-> 1]
QteY == [id |-> "a", type |-> "qte", key |-> "Y", x |-> Num(30), y |-> Num(40),
         frameStart |-> 0, frameEnd |-> 1]
AsciiB == [id |-> "b", type |-> "ascii", x |-> Num(0), y |-> Num(0),
           frameStart |-> 1, frameEnd |-> 1]

AddInputs == {QteA, QteY, AsciiB}
UpdateInputs == {[interactive |-> FALSE], [type |-> "text"]}
ProjectInputs == {[overlays |-> <<>>], [overlays |-> <<QteA>>]}

\* the overlay store under playback
Next ==
  \/ \E d \in Durations : LoadVideo(d)
  \/ \E f \in SeekFrames : seekToFrame(f)
  \/ \E d \in StepDeltas : stepFrames(d)
  \/ play
  \/ pause
  \/ MediaAdvance(FrameUnits)
  \/ \E h \in rafPending : renderLoop(h)
  \/ \E o \in AddInputs : addOverlay(o)
  \/ \E id \in UsedOverlayIds \cup UnknownIds : removeOverlay(id)
  \/ \E id \in UsedOverlayIds \cup UnknownIds, u \in UpdateInputs : updateOverlay(id, u)
  \/ \E p \in ProjectInputs : loadProject(p)

Spec == Init /\ [][Next]_vars

-----------------------------------------------------------------------------
(* The overlay store under the editing operations *)

Caption == [type |-> "caption", content |-> "hi"]

StoreAddInputs ==
  {Caption,
   ObjectAssign(Caption, [id |-> "a", frameStart |-> 1, frameEnd |-> 2]),
   ObjectAssign(Caption, [id |-> "a", frameEnd |-> 1])}
StoreUpdateInputs == {[frameEnd |-> 0], [frameStart |-> 2], [content |-> "yo"]}
StoreProjectInputs ==
  {[overlays |-> <<ObjectAssign(Caption, [id |-> "p", frameStart |-> 0, frameEnd |-> 1])>>]}

NextStore ==
  \/ \E d \in Durations : LoadVideo(d)
  \/ \E f \in SeekFrames : seekToFrame(f)
  \/ \E o \in StoreAddInputs : addOverlay(o)
  \/ \E id \in UsedOverlayIds \cup UnknownIds : removeOverlay(id)
  \/ \E id \in UsedOverlayIds \cup UnknownIds, u \in StoreUpdateInputs : updateOverlay(id, u)
  \/ \E p \in StoreProjectInputs : loadProject(p)

SpecStore == Init /\ [][NextStore]_vars

-----------------------------------------------------------------------------
(* The object tracker on its own *)

\* two boxes with a corner on a quarter pixel
B1 == B(Num(40), Norm(5, 4), Num(10), Num(10))
B2 == B(Norm(5, 4), Num(40), Num(4), Num(8))

TrackIds == {"t1"}
TrackWindows == {<<0, MaxFrame>>}
KeyframeFrames == {1, MaxFrame + 1}
\* keyframes the host adds: two boxes for frame 1, one past the window
KeyframeInputs == {<<1, B1>>, <<1, B2>>, <<MaxFrame + 1, B2>>}
QueryFrames == (-1)..(MaxFrame + 1)

\* a track as a project file holds it, here with no keyframe at all
EmptyTrack == [id |-> "t1", startFrame |-> 0, endFrame |-> MaxFrame, keyframes |-> <<>>]

TrackerProjectInputs == {[overlays |-> <<>>, trackedObjects |-> <<EmptyTrack>>]}

NextTracker ==
  \/ \E id \in TrackIds \cup {""}, w \in TrackWindows :
       trackObject(id, w[1], w[2], B1)
  \/ \E id \in UsedTrackIds \cup TrackIds, kf \in KeyframeInputs :
       addKeyframe(id, kf[1], kf[2])
  \/ \E id \in UsedTrackIds \cup TrackIds : removeTrackedObject(id)
  \/ \E id \in UsedTrackIds \cup TrackIds, f \in QueryFrames : queryTrackedBounds(id, f)
  \/ \E p \in TrackerProjectInputs : loadProject(p)

SpecTracker == Init /\ [][NextTracker]_vars

-----------------------------------------------------------------------------
(* Overlays bound to a track, under seeking *)

Label == [id |-> "o", type |-> "text", content |-> "hi", x |-> Num(0), y |-> Num(0),
          trackId |-> "t1", frameStart |-> 0, frameEnd |-> MaxFrame]

BoundAddInputs ==
  {Label,
   ObjectAssign(Label, [id |-> "s", trackSize |-> TRUE, trackOffset |-> [x |-> Num(2)],
                        style |-> [color |-> "blue", fontSize |-> 12]])}

\* partial updates of a bound overlay: a position, and a style object
BoundUpdateInputs == {[x |-> Num(2)], [style |-> [color |-> "red"]]}

NextBinding ==
  \/ \E d \in Durations : LoadVideo(d)
  \/ \E f \in SeekFrames : seekToFrame(f)
  \/ \E o \in BoundAddInputs : addOverlay(o)
  \/ \E id \in UsedOverlayIds : removeOverlay(id)
  \/ \E id \in UsedOverlayIds \cup UnknownIds, u \in BoundUpdateInputs : updateOverlay(id, u)
  \/ \E id \in TrackIds, w \in TrackWindows : trackObject(id, w[1], w[2], B1)
  \/ \E id \in TrackIds, f \in KeyframeFrames : addKeyframe(id, f, B2)
  \/ \E id \in TrackIds : removeTrackedObject(id)

SpecBinding == Init /\ [][NextBinding]_vars

-----------------------------------------------------------------------------
(* The overlay list in the host's hands *)

ListAddInputs ==
  {ObjectAssign(Caption, [id |-> "a", frameStart |-> 0, frameEnd |-> 1]),
   ObjectAssign(Caption, [id |-> "b", frameStart |-> 1, frameEnd |-> MaxFrame])}

\* an object of the host's own
HostItem == ObjectAssign(Caption, [id |-> "h", frameStart |-> 0, frameEnd |-> 0])

NextList ==
  \/ \E d \in Durations : LoadVideo(d)
  \/ \E f \in SeekFrames : seekToFrame(f)
  \/ \E o \in ListAddInputs : addOverlay(o)
  \/ \E id \in UsedOverlayIds : removeOverlay(id)
  \/ callGetOverlays
  \/ pushToList(HostItem)
  \/ shiftList
  \/ reverseList

SpecList == Init /\ [][NextList]_vars

-----------------------------------------------------------------------------
(* Frame and time conversions at the rates of the loaded project *)

ConversionRates == {DefaultFps, DefaultFps + 1}
ConversionFrames == 0..MaxConversionFrame
RateProjectInputs == {[fps |-> r, overlays |-> <<>>] : r \in ConversionRates}

NextTime ==
  \/ \E p \in RateProjectInputs : loadProject(p)
  \/ \E f \in ConversionFrames : callFrameToTime(f)
  \/ callTimeToFrame

SpecTime == Init /\ [][NextTime]_vars

-----------------------------------------------------------------------------
(* Typed text, arrows and lines *)

Typed == [id |-> "t", type |-> "terminal_text", content |-> "give",
          frameStart |-> 0, frameEnd |-> MaxFrame]
Arrow == [id |-> "r", type |-> "arrow", style |-> [animationFrames |-> Num(1)],
          frameStart |-> 0, frameEnd |-> MaxFrame]
Line == [id |-> "l", type |-> "line", frameStart |-> 0, frameEnd |-> MaxFrame]

DrawAddInputs ==
  {Typed,
   ObjectAssign(Typed, [style |-> [charsPerFrame |-> Num(2), typewriterDelay |-> Num(1)]]),
   ObjectAssign(Typed, [style |-> [charsPerFrame |-> Num(0)]]),
   Arrow,
   Line,
   ObjectAssign(Line, [style |-> [animated |-> FALSE]]),
   ObjectAssign(Line, [style |-> [arrowHead |-> FALSE, animated |-> FALSE]])}

NextDraw ==
  \/ \E d \in Durations : LoadVideo(d)
  \/ \E f \in SeekFrames : seekToFrame(f)
  \/ \E o \in DrawAddInputs : addOverlay(o)
  \/ \E id \in UsedOverlayIds : removeOverlay(id)

SpecDraw == Init /\ [][NextDraw]_vars

-----------------------------------------------------------------------------
(* Playback with an onFrameChange callback *)

\* what the callback does: nothing, pause the engine, or pause and resume it
CallbackInputs == {<<>>, <<"pause">>, <<"pause", "play">>}

PlaybackAddInputs ==
  {ObjectAssign(Caption, [id |-> "c", frameStart |-> 1, frameEnd |-> MaxFrame]), AsciiB}

NextPlayback ==
  \/ \E d \in Durations : LoadVideo(d)
  \/ \E o \in PlaybackAddInputs : addOverlay(o)
  \/ seekToFrame(0)
  \/ play
  \/ pause
  \/ togglePlay
  \/ MediaAdvance(FrameUnits)
  \/ \E h \in rafPending :
       \E calls \in (IF Cardinality(rafPending) < MaxPending THEN CallbackInputs ELSE {<<>>}) :
         renderLoopNotifying(h, calls)

SpecPlayback == Init /\ [][NextPlayback]_vars

-----------------------------------------------------------------------------
(* Timecodes at the rates of the loaded project *)

TimecodeRates == {1, DefaultFps, DefaultFps + 1}
TimecodeProjectInputs == {[fps |-> r, overlays |-> <<>>] : r \in TimecodeRates}

\* the frames that are numbers of the engine without rounding
TimecodeFrames == 0..(Pow2(SignificandBits) - 1)

\* HH:MM:SS.mmm strings: half a second, and a second and an eighth
MillisecondTimecodes ==
  {<<"0", "0", ":", "0", "0", ":", "0", "0", ".", "5", "0", "0">>,
   <<"0", "0", ":", "0", "0", ":", "0", "1", ".", "1", "2", "5">>,
   <<"0", "0", ":", "0", "0", ":", "0", "2">>}

\* the host loads its project before it converts timecodes
NextTimecode ==
  \/ timecode = NULL /\ \E p \in TimecodeProjectInputs : loadProject(p)
  \/ \E f \in TimecodeFrames : callFrameToTimecode(f)
  \/ \E str \in MillisecondTimecodes \cup (IF timecode = NULL THEN {} ELSE {timecode.text}) :
       callTimecodeToFrame(str)

SpecTimecode == Init /\ [][NextTimecode]_vars

-----------------------------------------------------------------------------
(* Terminal text written by a script *)

ScriptRates == {2, DefaultFps}
ScriptProjectInputs == {[fps |-> r, overlays |-> <<>>] : r \in ScriptRates}
ScriptTexts == {"give", "fishes!"}
ScriptOptions ==
  {EmptyObj,
   [charsPerFrame |-> Num(2)],
   [typewriter |-> FALSE],
   [typewriterDelay |-> Num(1)],
   [typewriterDelay |-> Num(3)]}

NextScript ==
  \/ \E d \in Durations : LoadVideo(d)
  \/ \E p \in ScriptProjectInputs : loadProject(p)
  \/ \E f \in SeekFrames : seekToFrame(f)
  \/ \E text \in ScriptTexts, f \in 0..MaxFrame, options \in ScriptOptions :
       addOverlay(terminalText(text, f, options, fps))
  \/ \E id \in UsedOverlayIds : removeOverlay(id)

SpecScript == Init /\ [][NextScript]_vars

-----------------------------------------------------------------------------
(* The overlay store under key presses *)

KeyInputs == {"x", "X", "y"}

NextKeys ==
  \/ \E d \in Durations : LoadVideo(d)
  \/ \E f \in SeekFrames : seekToFrame(f)
  \/ \E o \in AddInputs : addOverlay(o)
  \/ \E id \in UsedOverlayIds \cup UnknownIds : removeOverlay(id)
  \/ \E id \in UsedOverlayIds \cup UnknownIds, u \in UpdateInputs : updateOverlay(id, u)
  \/ \E key \in KeyInputs : handleKeyPress(key)

SpecKeys == Init /\ [][NextKeys]_vars

-----------------------------------------------------------------------------
(* The editor on a loaded video *)

PropertyInputs == {<<"content", "yo">>}

\* the video is loaded before the first edit
NextEditor ==
  \/ history = <<>> /\ LoadVideo(MaxDuration)
  \/ createOverlay(TextTool(currentFrame, fps))
  \/ \E i \in 1..MaxEdited : selectOverlay(i)
  \/ deleteSelectedOverlay
  \/ \E e \in PropertyInputs : updateOverlayProperty(e[1], e[2])
  \/ undo
  \/ redo

SpecEditor == Init /\ [][NextEditor]_vars

-----------------------------------------------------------------------------
(* Project files *)

Picture == [id |-> "i", type |-> "image", src |-> "a.png", x |-> Num(0), y |-> Num(0),
            frameStart |-> 0, frameEnd |-> 1]

\* a project saved from the video the host loads
SavedProject ==
  [version |-> "1.0", fps |-> DefaultFps,
   videoWidth |-> MediaSize.videoWidth, videoHeight |-> MediaSize.videoHeight,
   totalFrames |-> timeToFrame(MaxDuration, DefaultFps),
   overlays |-> <<Picture>>, trackedObjects |-> <<EmptyTrack>>]

\* projects saved from the loaded video, from a shorter and smaller one, and
\* by a later version of the format
FullProjectInputs ==
  {SavedProject,
   [SavedProject EXCEPT !.totalFrames = 2 * MaxFrame, !.videoWidth = MaxDuration,
                        !.overlays = <<>>],
   [SavedProject EXCEPT !.version = "1.1", !.trackedObjects = <<>>]}

NextProject ==
  \/ \E d \in Durations : LoadVideo(d)
  \/ \E f \in SeekFrames : seekToFrame(f)
  \/ \E o \in ListAddInputs : addOverlay(o)
  \/ \E id \in UsedOverlayIds : removeOverlay(id)
  \/ \E id \in TrackIds, w \in TrackWindows : trackObject(id, w[1], w[2], B1)
  \/ \E p \in FullProjectInputs : loadProject(p)

SpecProject == Init /\ [][NextProject]_vars

-----------------------------------------------------------------------------
(* Properties of the collision registry and the render pass *)

HasAreaFor(id) == \E k \in 1..Len(collisionAreas) : IdOf(collisionAreas[k]) = id

\* the overlay o is shown at the current frame
Shown(o) == o.frameStart <= currentFrame /\ currentFrame <= o.frameEnd

InteractiveQte(o) ==
  /\ Has(o, "type") /\ o.type = "qte"
  /\ ~(Has(o, "interactive") /\ o.interactive = FALSE)

\* a render() call ran its filter at the current frame
Rendered == renderStatus \in {"completed", "threw"}

\* C1: after every completed render the registry holds an area for an id
\* exactly when an active overlay of type qte whose interactive flag is not
\* false has that id; this covers an overlay updated to interactive: false
\* or to another type while it is shown.
C1_RegistryIffActiveQte ==
  renderStatus = "completed" =>
    \A id \in UsedOverlayIds :
      HasAreaFor(id) <=>
        \E i \in 1..Len(overlays) :
          IdOf(overlays[i]) = id /\ InteractiveQte(overlays[i]) /\ Shown(overlays[i])

AreasFor(o) == {k \in 1..Len(collisionAreas) : IdOf(collisionAreas[k]) = IdOf(o)}

IdIsUnique(i) ==
  \A j \in 1..Len(overlays) : j # i => IdOf(overlays[j]) # IdOf(overlays[i])

\* C2: once the engine rendered at the current frame, an interactive QTE
\* overlay with key K (the only overlay under its id) has exactly one area,
\* carrying K, while it is shown and no area while it is not.
C2_AreaWhileShown ==
  Rendered =>
    \A i \in 1..Len(overlays) :
      (InteractiveQte(overlays[i]) /\ Has(overlays[i], "key") /\ IdIsUnique(i)) =>
        IF Shown(overlays[i])
        THEN /\ Cardinality(AreasFor(overlays[i])) = 1
             /\ \A k \in AreasFor(overlays[i]) : collisionAreas[k].key = overlays[i].key
        ELSE AreasFor(overlays[i]) = {}

ProbeFrames == (-1)..(MaxFrame + 1)

\* C3: activeOverlays after a render at frame f, and getAtFrame(f) for any
\* f, hold an overlay exactly when frameStart <= f <= frameEnd, both ends
\* included.
C3_ActiveIffInWindow ==
  /\ Rendered =>
       \A i \in 1..Len(overlays) :
         (i \in Range(activeOverlays)) <=>
           (overlays[i].frameStart <= currentFrame /\ currentFrame <= overlays[i].frameEnd)
  /\ \A f \in ProbeFrames : \A i \in 1..Len(overlays) :
       (overlays[i] \in Range(getAtFrame(overlays, f))) <=>
         (overlays[i].frameStart <= f /\ f <= overlays[i].frameEnd)

\* C3 at work: at the rendered frame one overlay is on its frameStart and
\* active, another is one frame before its frameStart and inactive.
C3_Witness ==
  /\ renderStatus = "completed"
  /\ \E i \in Range(activeOverlays) : overlays[i].frameStart = currentFrame
  /\ \E j \in 1..Len(overlays) :
       overlays[j].frameStart - 1 = currentFrame /\ j \notin Range(activeOverlays)

\* C4: once a video with at least one frame is loaded, currentFrame stays
\* within 0..totalFrames-1 under seeks, steps, play, pause and playback
\* ticks, the tick at the end of the media included.
C4_FrameInRange ==
  (video # NULL /\ totalFrames >= 1) =>
    (0 <= currentFrame /\ currentFrame <= totalFrames - 1)

\* C5: every stored overlay has frameEnd >= frameStart.
C5_WindowOrdered ==
  \A i \in 1..Len(overlays) : overlays[i].frameEnd >= overlays[i].frameStart

\* C6: every stored overlay has a non-empty id and no two stored overlays
\* have the same id.
C6_UniqueIds ==
  /\ \A i \in 1..Len(overlays) : TruthyStr(overlays[i], "id")
  /\ \A i, j \in 1..Len(overlays) : i # j => IdOf(overlays[i]) # IdOf(overlays[j])

Geometry(o) == Pick(o, {"x", "y", "width", "height"})

\* C7: a render leaves the stored x, y, width and height of every overlay
\* as they were (a step to another frame only renders).
C7_GeometryNotPersisted ==
  [][currentFrame' # currentFrame =>
       \A i \in 1..Len(overlays) : Geometry(overlays'[i]) = Geometry(overlays[i])]_vars

\* C8: a render pass does not throw: every active overlay is dispatched to
\* its renderer and the pass ends with the registry update.
C8_RenderCompletes ==
  Rendered => (renderStatus = "completed" /\ dispatched = activeOverlays)

-----------------------------------------------------------------------------
(* Properties of the object tracker *)

\* a step in which the host called getTrackedBounds
IsQueryStep == <<lastBounds, lastQuery>>' # <<lastBounds, lastQuery>>

\* the track is unknown, has no keyframes, or the frame is outside its window
NoBoundsCase(q) ==
  \/ \A i \in 1..Len(trackedObjects) : trackedObjects[i].id # q.trackId
  \/ \E i \in 1..Len(trackedObjects) :
       /\ trackedObjects[i].id = q.trackId
       /\ \/ Len(trackedObjects[i].keyframes) = 0
          \/ q.frame < trackedObjects[i].startFrame
          \/ q.frame > trackedObjects[i].endFrame

\* C9: getTrackedBounds changes no state, and it returns null exactly when
\* the track id is unknown, the track has no keyframes, or the frame is
\* outside [startFrame, endFrame]; in every other case it returns bounds.
C9_NullExactly ==
  [][IsQueryStep =>
       /\ UNCHANGED <<engineVars, storeVars, trackedObjects>>
       /\ (lastBounds' = NULL) <=> NoBoundsCase(lastQuery')]_vars

\* C9 at work: null for a frame past the window that has a keyframe on it.
C9_Witness ==
  /\ lastQuery # NULL
  /\ lastBounds = NULL
  /\ \E i \in 1..Len(trackedObjects) :
       /\ trackedObjects[i].id = lastQuery.trackId
       /\ lastQuery.frame > trackedObjects[i].endFrame
       /\ \E k \in 1..Len(trackedObjects[i].keyframes) :
            trackedObjects[i].keyframes[k].frame = lastQuery.frame

\* b is the bounds the keyframes of track t hold at frame f
HeldBounds(t, f, b) ==
  /\ f <= t.keyframes[1].frame => b = t.keyframes[1].bounds
  /\ f >= t.keyframes[Len(t.keyframes)].frame => b = t.keyframes[Len(t.keyframes)].bounds
  /\ \A k \in 1..Len(t.keyframes) : t.keyframes[k].frame = f => b = t.keyframes[k].bounds

\* C10: inside the window, a frame at or before the first keyframe gets the
\* first keyframe's bounds, a frame at or after the last keyframe gets the
\* last keyframe's bounds, and a frame on a keyframe gets that keyframe's
\* bounds.
C10_HoldOrExact ==
  [][(IsQueryStep /\ ~NoBoundsCase(lastQuery')) =>
       HeldBounds(MapGet(trackedObjects, lastQuery'.trackId), lastQuery'.frame,
                  lastBounds')]_vars

\* prev + (next - prev) * (frame - a) / (b - a), for one field
LinearAt(prev, next, frame, a, b) ==
  NumAdd(prev, NumMul(NumSub(next, prev), NumDiv(Num(frame - a), Num(b - a))))

\* the bounds between the keyframes p and q at frame f, field by field
LinearBounds(p, q, f) ==
  [x |-> LinearAt(p.bounds.x, q.bounds.x, f, p.frame, q.frame),
   y |-> LinearAt(p.bounds.y, q.bounds.y, f, p.frame, q.frame),
   width |-> LinearAt(p.bounds.width, q.bounds.width, f, p.frame, q.frame),
   height |-> LinearAt(p.bounds.height, q.bounds.height, f, p.frame, q.frame)]

\* keyframes at frames 0 and 10 with x 0 and 100
RampTrack ==
  [id |-> "ramp", startFrame |-> 0, endFrame |-> 10,
   keyframes |-> <<[frame |-> 0, bounds |-> B(Num(0), Num(0), Num(8), Num(8))],
                   [frame |-> 10, bounds |-> B(Num(100), Num(0), Num(8), Num(8))]>>]

\* k, k+1 are adjacent keyframes of t with frame f strictly between them
StrictlyBetween(t, k, f) ==
  /\ k \in 1..(Len(t.keyframes) - 1)
  /\ t.keyframes[k].frame < f
  /\ f < t.keyframes[k + 1].frame

\* C11: for a frame strictly between two adjacent keyframes at a < b, inside
\* the window, getTrackedBounds returns for each of x, y, width, height
\* prev + (next - prev) * (frame - a) / (b - a) of those two keyframes; the
\* keyframes 0 and 10 with x 0 and 100 give x = 50 at frame 5.
C11_LinearBetweenAdjacent ==
  [][/\ (IsQueryStep /\ ~NoBoundsCase(lastQuery')) =>
          \A k \in 1..Len(MapGet(trackedObjects, lastQuery'.trackId).keyframes) :
            StrictlyBetween(MapGet(trackedObjects, lastQuery'.trackId), k, lastQuery'.frame) =>
              lastBounds' =
                LinearBounds(MapGet(trackedObjects, lastQuery'.trackId).keyframes[k],
                             MapGet(trackedObjects, lastQuery'.trackId).keyframes[k + 1],
                             lastQuery'.frame)
     /\ getTrackedBounds(<<RampTrack>>, "ramp", 5).x = Num(50)]_vars

\* C11 at work: a query strictly between the second and the third of three
\* keyframes, whose bounds differ, answered with the bounds between them.
C11_Witness ==
  /\ lastQuery # NULL
  /\ lastBounds # NULL
  /\ \E i \in 1..Len(trackedObjects) :
       /\ trackedObjects[i].id = lastQuery.trackId
       /\ Len(trackedObjects[i].keyframes) = 3
       /\ StrictlyBetween(trackedObjects[i], 2, lastQuery.frame)
       /\ trackedObjects[i].keyframes[2].bounds # trackedObjects[i].keyframes[3].bounds
       /\ lastBounds =
            LinearBounds(trackedObjects[i].keyframes[2], trackedObjects[i].keyframes[3],
                         lastQuery.frame)

\* the frames of a keyframe list are distinct and increasing
StrictlyIncreasing(kfs) ==
  \A k \in 1..(Len(kfs) - 1) : kfs[k].frame < kfs[k + 1].frame

HasKeyframeAt(t, f) == \E k \in 1..Len(t.keyframes) : t.keyframes[k].frame = f

\* C12: every track's keyframes have distinct, strictly increasing frames;
\* addKeyframe on a frame that has a keyframe replaces it (same length, the
\* new bounds stored), and the same addKeyframe call made twice leaves the
\* track as the first call left it.
C12_KeyframesOrdered ==
  \A i \in 1..Len(trackedObjects) :
    /\ StrictlyIncreasing(trackedObjects[i].keyframes)
    /\ \A f \in KeyframeFrames, b \in {B1, B2} :
         /\ StrictlyIncreasing(WithKeyframe(trackedObjects[i], f, b).keyframes)
         /\ \E k \in 1..Len(WithKeyframe(trackedObjects[i], f, b).keyframes) :
              WithKeyframe(trackedObjects[i], f, b).keyframes[k] = [frame |-> f, bounds |-> b]
         /\ HasKeyframeAt(trackedObjects[i], f) =>
              Len(WithKeyframe(trackedObjects[i], f, b).keyframes)
                = Len(trackedObjects[i].keyframes)
         /\ WithKeyframe(WithKeyframe(trackedObjects[i], f, b), f, b)
              = WithKeyframe(trackedObjects[i], f, b)

\* C12 at work: a track holds three keyframes in order, the last of them
\* past the window, and a fourth addKeyframe call on the middle frame with
\* other bounds would replace the middle keyframe.
C12_Witness ==
  \E i \in 1..Len(trackedObjects) :
    /\ Len(trackedObjects[i].keyframes) = 3
    /\ trackedObjects[i].keyframes[3].frame > trackedObjects[i].endFrame
    /\ trackedObjects[i].keyframes[2].bounds = B2
    /\ WithKeyframe(trackedObjects[i], trackedObjects[i].keyframes[2].frame, B1).keyframes[2].bounds = B1

-----------------------------------------------------------------------------
(* Properties of the store's editing operations *)

\* what the caller of addOverlay(o) is promised to find stored: o's own
\* fields as given, with id, frameStart and frameEnd filled in when missing,
\* and no other field
StoredAsGiven(o, stored, frame, rate) ==
  /\ DOMAIN stored = DOMAIN o \cup {"id", "frameStart", "frameEnd"}
  /\ \A k \in DOMAIN o \ {"id"} : stored[k] = o[k]
  /\ IF TruthyStr(o, "id") THEN stored.id = o.id ELSE TruthyStr(stored, "id")
  /\ ~Has(o, "frameStart") => stored.frameStart = frame
  /\ ~Has(o, "frameEnd") => stored.frameEnd = stored.frameStart + rate

\* C13: addOverlay(o) appends o at the end of the store with a missing id
\* generated, a missing frameStart set to the current frame and a missing
\* frameEnd set to frameStart + fps; the fields the caller supplied are
\* stored unchanged and no other field is written.
C13_AddStoresAsGiven ==
  [][\A o \in BoundAddInputs \cup StoreAddInputs \cup AddInputs :
       addOverlay(o) =>
         /\ Len(overlays') = Len(overlays) + 1
         /\ StoredAsGiven(o, overlays'[Len(overlays')], currentFrame, fps)]_vars

\* C14: updateOverlay(id, partial) overwrites exactly the top-level fields
\* named in partial on the overlay with that id (a style in partial replaces
\* the whole style object) and leaves its other fields and all other
\* overlays unchanged; with an unknown id the store is unchanged and nothing
\* is rendered.
C14_ShallowMerge ==
  [][\A id \in UsedOverlayIds \cup UnknownIds :
       \A u \in BoundUpdateInputs \cup StoreUpdateInputs \cup UpdateInputs :
         updateOverlay(id, u) =>
           IF FindOverlay(overlays, id) = 0
           THEN UNCHANGED storeVars
           ELSE /\ Len(overlays') = Len(overlays)
                /\ \A i \in 1..Len(overlays) :
                     overlays'[i] = IF i = FindOverlay(overlays, id)
                                    THEN ObjectAssign(overlays[i], u)
                                    ELSE overlays[i]]_vars

\* the ids of the overlays of a list, in order
IdsOf(items) == [i \in 1..Len(items) |-> IdOf(items[i])]

HeldIds == IF held = NULL THEN NULL ELSE IdsOf(ItemsOf(held, overlays))

\* C15: the list getOverlays() returned and the store are different arrays:
\* a step that changes the members or the order of the returned list (the
\* host pushing, shifting, reversing) leaves the members and order of the
\* store as they were, and a step that changes the store (addOverlay,
\* removeOverlay) leaves a list returned earlier as it was.
C15_ListIsACopy ==
  [][held # NULL =>
       /\ HeldIds' # HeldIds => IdsOf(overlays') = IdsOf(overlays)
       /\ IdsOf(overlays') # IdsOf(overlays) => HeldIds' = HeldIds]_vars

\* C15 at work: the host holds a list it has pushed its own object to and
\* reordered, and the store has since lost an overlay the list still has.
C15_Witness ==
  /\ held # NULL
  /\ Len(held.items) = MaxOverlays
  /\ IdOf(held.items[1]) = IdOf(HostItem)
  /\ \A i \in 1..Len(overlays) : IdOf(overlays[i]) # IdOf(HostItem)
  /\ \E i \in 1..Len(held.items) :
       \A j \in 1..Len(overlays) : IdOf(overlays[j]) # IdOf(held.items[i])
  /\ \E j \in 1..Len(overlays) :
       \A i \in 1..Len(held.items) : IdOf(overlays[j]) # IdOf(held.items[i])

-----------------------------------------------------------------------------
(* Properties of project files *)

\* a project as it is expected back: its overlays without imageElement
Stripped(p) == [p EXCEPT !.overlays = [i \in 1..Len(p.overlays) |-> Clean(p.overlays[i])]]

\* C16: exportProject() right after loadProject(p) returns p, field by field,
\* with imageElement stripped from the overlays.
C16_ExportAfterLoad ==
  [][\A p \in FullProjectInputs : loadProject(p) => exportProject' = Stripped(p)]_vars

-----------------------------------------------------------------------------
(* Properties of the temporal mapper *)

\* C17: converting a frame to its time and back gives the frame again, at
\* every rate.
C17_FrameRoundTrip ==
  (converted # NULL /\ Has(converted, "back")
     /\ converted.time = frameToTimeNum(Num(converted.frame), Num(fps)))
    => converted.back = Num(converted.frame)

-----------------------------------------------------------------------------
(* Properties of what the renderers draw *)

\* the overlays the latest render pass handed to their renderers
Drawn == {overlays[dispatched[k]] : k \in 1..Len(dispatched)}

TypewriterOn(o) ==
  /\ o.type = "terminal_text"
  /\ ~(Has(StyleOf(o), "typewriter") /\ StyleOf(o).typewriter = FALSE)

\* the style's own value of a number option, or the documented default
Setting(o, p, default) == IF Has(StyleOf(o), p) THEN StyleOf(o)[p] ELSE default

\* floor((frame - frameStart - delay) * charsPerFrame) clamped to [0, len]
ClampedChars(o, frame) ==
  NumMax(Num(0),
         NumMin(Num(Len(ContentOf(o))),
                Floor(NumMul(NumSub(Num(frame - o.frameStart),
                                    Setting(o, "typewriterDelay", Num(0))),
                             Setting(o, "charsPerFrame", Round(1, 2))))))

TenChars == [type |-> "terminal_text", content |-> "0123456789",
             style |-> [charsPerFrame |-> Round(1, 2)], frameStart |-> 0]

\* C18: a typed text drawn at the current frame shows
\* floor((currentFrame - frameStart - delay) * charsPerFrame) characters,
\* clamped to [0, len]; the count is never below an earlier frame's; ten
\* characters at half a character per frame are hidden at frame 0 and all
\* shown from frame 20 on.
C18_TypewriterCount ==
  /\ Rendered =>
       \A o \in Drawn :
         TypewriterOn(o) =>
           /\ VisibleChars(o, currentFrame) = ClampedChars(o, currentFrame)
           /\ \A f \in o.frameStart..currentFrame :
                ~NumLess(VisibleChars(o, currentFrame), VisibleChars(o, f))
  /\ VisibleChars(TenChars, 0) = Num(0)
  /\ \A f \in 20..(20 + MaxFrame) : VisibleChars(TenChars, f) = Num(10)

\* C19: a line is drawn without an arrowhead whatever its style says, and
\* an arrow whose style does not set arrowHead is drawn with one as soon as
\* its draw progress exceeds 0.1.
C19_ArrowHeadByType ==
  Rendered =>
    \A o \in Drawn :
      /\ o.type = "line" => ~DrawsArrowHead(o, currentFrame)
      /\ (o.type = "arrow" /\ ~Has(StyleOf(o), "arrowHead")) =>
           (DrawsArrowHead(o, currentFrame)
              <=> NumLess(Round(1, 10), DrawProgress(o, currentFrame)))

\* the x values the host gives a bound overlay, through addOverlay and
\* through updateOverlay
GivenX == {Label.x} \cup {u.x : u \in {v \in BoundUpdateInputs : Has(v, "x")}}

\* a step whose render pass ran to its end with the tracker as it was
IsRenderStep ==
  /\ trackedObjects' = trackedObjects
  /\ ctx' = ctx
  /\ renderStatus' = "completed"

\* C20: an overlay whose trackId names no track is drawn at the x and y the
\* host gave it, not at a position an earlier render took from the track.
C20_MissingTrackFallsBack ==
  [][IsRenderStep =>
       \A k \in 1..Len(dispatched') :
         (/\ Has(overlays'[dispatched'[k]], "trackId")
          /\ ~MapHas(trackedObjects', overlays'[dispatched'[k]].trackId))
           => /\ overlays'[dispatched'[k]].x \in GivenX
              /\ overlays'[dispatched'[k]].y = Label.y]_vars

-----------------------------------------------------------------------------
(* Properties of the drawing order *)

Increasing(positions) ==
  \A k \in 1..(Len(positions) - 1) : positions[k] < positions[k + 1]

\* a is b with some elements left out
RECURSIVE IsSubsequence(_, _)
IsSubsequence(a, b) ==
  IF a = <<>> THEN TRUE
  ELSE IF b = <<>> THEN FALSE
  ELSE IF Head(a) = Head(b) THEN IsSubsequence(Tail(a), Tail(b))
  ELSE IsSubsequence(a, Tail(b))

\* a step of removeOverlay or of updateOverlay
IsEditStep ==
  \E id \in UsedOverlayIds \cup UnknownIds :
    \/ removeOverlay(id)
    \/ \E u \in UpdateInputs \cup StoreUpdateInputs : updateOverlay(id, u)

\* C21: a render hands the active overlays to their renderers in store
\* order, the overlay added later after the one added earlier, and
\* removeOverlay and updateOverlay keep the order of the overlays that stay.
C21_DrawnInStoreOrder ==
  [][/\ renderStatus' \in {"completed", "threw"} =>
          /\ Increasing(activeOverlays')
          /\ Increasing(dispatched')
          /\ dispatched' = SubSeq(activeOverlays', 1, Len(dispatched'))
     /\ IsEditStep => IsSubsequence(IdsOf(overlays'), IdsOf(overlays))]_vars

\* C21 at work: a render that drew every overlay of a full store, the first
\* and the last of them being different overlays.
C21_Witness ==
  /\ renderStatus = "completed"
  /\ Len(overlays) = MaxOverlays
  /\ Len(dispatched) = MaxOverlays
  /\ IdOf(overlays[1]) # IdOf(overlays[Len(overlays)])

-----------------------------------------------------------------------------
(* Properties of playback *)

\* the frame a tick computes from the media time
ComputedFrame == timeToFrame(video.currentTime, fps)

\* C22: a tick during playback renders in full and calls onFrameChange with
\* the computed frame exactly when that frame differs from currentFrame; a
\* tick on the same frame renders nothing, calls nothing and leaves
\* currentFrame, the active overlays and the registry as they were.
C22_TickRendersIffFrameChanged ==
  [][\A h \in rafPending : \A calls \in CallbackInputs :
       (isPlaying /\ renderLoopNotifying(h, calls)) =>
         IF ComputedFrame # currentFrame
         THEN /\ currentFrame' = ComputedFrame
              /\ renderStatus' = "completed"
              /\ activeOverlays' = ActivePositions(overlays', currentFrame', 1)
              /\ dispatched' = activeOverlays'
              /\ notified' = ComputedFrame
         ELSE /\ notified' = NULL
              /\ UNCHANGED <<currentFrame, storeVars>>]_vars

\* a step of seekToFrame or stepFrames
IsSeekStep ==
  \/ \E f \in SeekFrames : seekToFrame(f)
  \/ \E d \in StepDeltas : stepFrames(d)

\* a playback tick
IsTickStep == \E h \in rafPending : renderLoop(h)

\* C23 as stated: currentFrame changes only in a step of seekToFrame or
\* stepFrames; the playback tick leaves it unchanged like every other
\* operation.
C23_OnlySeekMovesFrame ==
  [][currentFrame' # currentFrame => IsSeekStep]_vars

\* C23, amended: currentFrame changes only in a step of seekToFrame or
\* stepFrames or in a playback tick; every other operation leaves it
\* unchanged.
C23_OnlySeekOrTickMovesFrame ==
  [][currentFrame' # currentFrame => (IsSeekStep \/ IsTickStep)]_vars

\* C23 at work: playback has carried the engine to the frame at the end of
\* the media, where no seek arrives, and the next tick is pending.
C23_Witness ==
  /\ isPlaying
  /\ totalFrames > 0
  /\ currentFrame = totalFrames
  /\ currentFrame = ComputedFrame
  /\ animationId \in rafPending

-----------------------------------------------------------------------------
(* Properties of the arrow animation *)

IsArrowOrLine(o) == o.type \in {"arrow", "line"}

Animated(o) == ~(Has(StyleOf(o), "animated") /\ StyleOf(o).animated = FALSE)

\* min(1, elapsed / animationFrames) as a number: 1 when the quotient of
\* the integers is at least 1, the nearest number to the quotient otherwise
ProgressOf(elapsed, animationFrames) ==
  IF elapsed * animationFrames.d >= animationFrames.n THEN Num(1)
  ELSE Round(elapsed * animationFrames.d, animationFrames.n)

\* C24: an arrow or line drawn at the current frame has draw progress
\* min(1, (currentFrame - frameStart) / animationFrames), animationFrames
\* being 24 by default, and progress 1 when style.animated is false; the
\* progress is 0 at frameStart, never below an earlier frame's and never
\* above 1, and the arrowhead is drawn only when progress exceeds 0.1.
C24_DrawProgress ==
  Rendered =>
    \A o \in {d \in Drawn : IsArrowOrLine(d)} :
      /\ ~Animated(o) => \A f \in o.frameStart..currentFrame : DrawProgress(o, f) = Num(1)
      /\ Animated(o) =>
           /\ DrawProgress(o, currentFrame)
                = ProgressOf(currentFrame - o.frameStart,
                             Setting(o, "animationFrames", Num(DefaultAnimationFrames)))
           /\ DrawProgress(o, o.frameStart) = Num(0)
      /\ \A f \in o.frameStart..currentFrame :
           ~NumLess(DrawProgress(o, currentFrame), DrawProgress(o, f))
      /\ ~NumLess(Num(1), DrawProgress(o, currentFrame))
      /\ DrawsArrowHead(o, currentFrame) => NumLess(Round(1, 10), DrawProgress(o, currentFrame))

\* C24 at work: one render drew an arrow whose animation had ended a frame
\* before, with its head, and a line that was still too short for a head.
C24_Witness ==
  /\ Rendered
  /\ \E o \in Drawn :
       /\ o.type = "arrow" /\ Animated(o)
       /\ NumLess(Setting(o, "animationFrames", Num(DefaultAnimationFrames)),
                  Num(currentFrame - o.frameStart))
       /\ DrawProgress(o, currentFrame) = Num(1)
       /\ DrawsArrowHead(o, currentFrame)
  /\ \E o \in Drawn :
       /\ o.type = "line" /\ Animated(o)
       /\ NumLess(Num(0), DrawProgress(o, currentFrame))
       /\ ~DrawsArrowHead(o, currentFrame)

\* the string is of the form HH:MM:SS:FF
IsFrameForm(str) == Len(Split(str, ":", <<>>)) = 4

\* C25: at every rate, timecodeToFrame of the HH:MM:SS:FF string that
\* frameToTimecode made of a frame f is f again, and the FF field is f mod fps;
\* timecodeToFrame of an HH:MM:SS.mmm string is totalSeconds * fps rounded to
\* the nearest integer, a half going up, and not rounded down.
C25_TimecodeRoundTrip ==
  timecode # NULL =>
    /\ Has(timecode, "frame")
         => /\ IsFrameForm(timecode.text)
            /\ Number(Split(timecode.text, ":", <<>>)[4]) = Num(timecode.frame % timecode.rate)
            /\ Has(timecode, "back") => timecode.back = Num(timecode.frame)
    /\ (Has(timecode, "back") /\ ~IsFrameForm(timecode.text))
         => LET product == NumMul(TotalSeconds(timecode.text), Num(timecode.rate))
            IN  /\ timecode.back.d = 1
                /\ 2 * timecode.back.n * product.d - 2 * product.n <= product.d
                /\ 2 * product.n - 2 * timecode.back.n * product.d < product.d

\* a frame past the first minute, with seconds to spare, came back from its
\* timecode
C25_Witness ==
  /\ timecode # NULL /\ Has(timecode, "frame") /\ Has(timecode, "back")
  /\ timecode.frame > SecondsPerMinute
  /\ timecode.rate = 1

\* C26: undo() after an edit leaves the overlay list with the content it had
\* immediately before that edit, also when the edit is the first and only
\* one, and redo() after that undo leaves the content the list had just
\* before the undo.
C26_UndoRestoresLastEdit ==
  Has(lastEdit, "target") => JsonStringify(overlays) = lastEdit.target

\* C27: -1 <= historyIndex <= history.length - 1 and history.length <=
\* maxHistory in every state; right after a saveHistory() the index is
\* history.length - 1; after an undo() or redo() on a history that is not
\* empty the index lies in 0 .. history.length - 1.
C27_HistoryIndexInRange ==
  /\ -1 <= historyIndex
  /\ historyIndex <= Len(history) - 1
  /\ Len(history) <= maxHistory
  /\ (Has(lastEdit, "op") /\ lastEdit.op = "edit") => historyIndex = Len(history) - 1
  /\ (Has(lastEdit, "op") /\ lastEdit.op \in {"undo", "redo"} /\ history # <<>>)
       => historyIndex \in 0..(Len(history) - 1)

\* the history is full, its oldest snapshot (the empty list) has been
\* dropped, and an edit was saved after an undo had left later snapshots
C27_Witness ==
  /\ Len(history) = maxHistory
  /\ history[1] # <<>>
  /\ Has(lastEdit, "op") /\ lastEdit.op = "edit"
  /\ historyIndex = Len(history) - 1

\* C28: under every interleaving of play, pause, togglePlay and ticks, with
\* pause and play called from inside onFrameChange while a tick runs, at
\* most one renderLoop callback is pending, and a tick that runs while the
\* engine is paused renders nothing and leaves currentFrame as it was.
C28_OneLoopPending ==
  /\ [](Cardinality(rafPending) <= 1)
  /\ [][\A h \in rafPending : \A calls \in CallbackInputs :
          (~isPlaying /\ renderLoopNotifying(h, calls)) =>
             (currentFrame' = currentFrame /\ UNCHANGED storeVars)]_vars

\* C29: a key press calls onQTEPrompt at most once, and the overlay it
\* reports is in the store, is of type qte with the key pressed (ignoring
\* case), and is active at the current frame.
C29_PromptReportsActiveQte ==
  /\ Len(prompted) <= 1
  /\ \A k \in 1..Len(prompted) :
       /\ prompted[k].found
       /\ Has(prompted[k].overlay, "type") /\ prompted[k].overlay.type = "qte"
       /\ Has(prompted[k].overlay, "key")
       /\ toLowerCase(prompted[k].overlay.key) = toLowerCase(prompted[k].key)
       /\ IsActiveAt(prompted[k].overlay, prompted[k].frame)

\* C30: every overlay made by GIVEScript.terminalText without
\* options.duration and options.frameEnd has a frame in its window at which
\* the whole content is visible.
C30_WholeTextShown ==
  \A i \in 1..Len(overlays) :
    overlays[i].type = "terminal_text" =>
      \E f \in overlays[i].frameStart..overlays[i].frameEnd :
        VisibleChars(overlays[i], f) = Num(Len(ContentOf(overlays[i])))

====
